---- MODULE Spec2Model ----
(***************************************************************************)
(* Model of server-scripts/backup/python/overengineered-backup-script.py:  *)
(* the staged backup run of main() (lock, pre-flight, maintenance window,  *)
(* escalating container shutdown, snapshot, priority restart, verify,      *)
(* off-site sync with retry, finalization) and the run-level lock file     *)
(* shared by concurrent invocations.                                       *)
(*                                                                         *)
(* Spec      one invocation of main(), step by step, in an environment     *)
(*           that decides the outcome of every external command.           *)
(* LockSpec  several invocations racing for the lock file, each reduced to *)
(*           acquire_lock / staged sequence / cleanup_lock.                *)
(* ShutdownSpec  ensure_all_containers_stopped alone, from the call in      *)
(*           stage CONTAINER_SHUTDOWN, with every command recorded.        *)
(* ShutdownLiveSpec  ShutdownSpec in which a shutdown loop that can take a *)
(*           step eventually takes it (every external command returns).    *)
(* SyncSpec  run_rclone_sync_with_retry alone, from the call in stage      *)
(*           RCLONE_SYNC, with every sleep and attempt recorded.           *)
(* ParseSpec _execute_rclone_sync after the rclone process has ended: the  *)
(*           scan of its JSON log, line by line, and the result returned.  *)
(***************************************************************************)
EXTENDS Integers, Sequences, FiniteSets, TLC

\* ------------------------------------------------------------------------
\* Program constants (configuration section of the script)
\* ------------------------------------------------------------------------
DOCKER_ENABLE_STOP_START == TRUE
ENABLE_RCLONE_UPLOAD == TRUE
ENABLE_UPTIME_KUMA_MAINTENANCE == TRUE
DOCKER_SHUTDOWN_OVERALL_TIMEOUT == 300
DOCKER_SHUTDOWN_MAX_RETRIES == 3
DOCKER_SHUTDOWN_RETRY_DELAY == 10
RCLONE_MAX_RETRIES == 5
RCLONE_RETRY_DELAY == 30
RCLONE_RETRY_MAX_DELAY == 300
RCLONE_OVERALL_TIMEOUT == 7200
SCRIPT_OVERALL_TIMEOUT == 14400

\* ------------------------------------------------------------------------
\* Bounds of the model
\* ------------------------------------------------------------------------
\* containers on the host: container 1 belongs to the priority compose file,
\* the others to the ordinary compose files
NumContainers == 2
\* ordinary compose files found under DOCKER_STACKS_DIR
NumOther == 1
\* concurrent invocations in LockSpec
NumInstances == 3
\* wall clock of LockSpec: it advances ClockStep seconds at a time, MaxTicks times
ClockStep == 7200
MaxTicks == 3
\* wall-clock seconds one escalation cycle of the shutdown can take
QuickCycle == 20
SlowCycle == 300
\* seconds an rclone attempt that ends by itself runs
TransferTime == 600
\* lines of the rclone log of one attempt in ParseSpec
MaxLogLines == 4

Containers == 1..NumContainers
PLEX_COMPOSE_FILE == 0
OtherFiles == 1..NumOther
Instances == 1..NumInstances
\* the invocation that Spec follows, and the invocation that may hold the lock
Self == CHOOSE p \in Instances : \A q \in Instances : p <= q
Other == CHOOSE p \in Instances \ {Self} : \A q \in Instances \ {Self} : p <= q

\* the compose file a container was started from
FileOf(c) == IF c = 1 THEN PLEX_COMPOSE_FILE ELSE 1 + ((c - 2) % NumOther)
ContainersOf(files) == {c \in Containers : FileOf(c) \in files}

BackupStage ==
    <<"INIT", "PREFLIGHT", "MAINTENANCE_WINDOW", "CONTAINER_SHUTDOWN",
      "BACKUP_CREATION", "BACKUP_VERIFICATION", "CONTAINER_RESTART_PLEX",
      "RCLONE_SYNC", "CONTAINER_RESTART_ALL", "CLEANUP", "COMPLETE">>

VARIABLES
    pc,                 \* position of main()
    backup_state,       \* the BackupState record
    success,            \* main's local `success`
    exit_code,          \* "None" until sys.exit, then 0 or 1
    shutdown_requested, \* the global set by signal_handler
    dry_run_mode,       \* --dry-run
    stacksIsDir,        \* DOCKER_STACKS_DIR.is_dir()
    running,            \* containers `docker ps -q` would list
    lockFile,           \* LOCK_FILE on disk
    lock_fd,            \* the global lock_fd of every invocation
    ipc,                \* LockSpec: position of every invocation
    now,                \* wall clock, seconds
    retry,              \* ensure_all_containers_stopped: loop variable
    remaining,          \* ensure_all_containers_stopped: `remaining`
    sd_elapsed,         \* time.monotonic() - overall_start
    sd_trace,           \* history: every command of ensure_all_containers_stopped
    attempt,            \* run_rclone_sync_with_retry: loop variable
    retry_delay,        \* run_rclone_sync_with_retry: retry_delay
    last_error,         \* run_rclone_sync_with_retry: last_error
    rclone_summary,     \* history: what run_rclone_sync_with_retry returned
    rc_trace,           \* history: every sleep and transfer of the retry loop
    rc_elapsed,         \* history: time.monotonic() - start_time of the retry loop
    rclone_log,         \* _execute_rclone_sync: the lines of the rclone log file
    line_no,            \* _execute_rclone_sync: lines of the log read so far
    final_stats,        \* _execute_rclone_sync: final_stats
    error_lines,        \* _execute_rclone_sync: error_lines
    sync_result,        \* what _execute_rclone_sync returned
    detail,             \* whether sd_trace and rc_trace are recorded
    final_status,       \* status computed by send_final_status_notification
    restart_error,      \* finally block of main: `e` of `except Exception as e`
    raised,             \* history: the exception that ended the staged sequence
    cancel_at,          \* history: the retry loop main was in when the signal arrived
                        \* (the attempt and the backoff wait only with `detail`)
    trace               \* history: calls made and kinds of command issued, in order

lockVars == <<lockFile, lock_fd, ipc, now>>
envVars == <<dry_run_mode, stacksIsDir, detail>>
finVars == <<restart_error>>
sdVars == <<retry, remaining, sd_elapsed, sd_trace>>
logVars == <<rclone_log, line_no, final_stats, error_lines, sync_result>>
rcVars == <<attempt, retry_delay, last_error, rclone_summary, rc_trace, rc_elapsed,
            logVars>>
mainVars == <<pc, backup_state, success, exit_code, shutdown_requested, running,
              final_status, raised, cancel_at, trace>>
vars == <<mainVars, envVars, finVars, sdVars, rcVars, lockVars>>

\* one entry of the history: a call or an external command, the compose files
\* or containers it names, and a tag (where it was made, or a status)
Ev(op, ids, tag) == [op |-> op, ids |-> ids, tag |-> tag]

\* `trace` records a run of the same command of a retry loop once
Once(tr, e) == IF tr # <<>> /\ tr[Len(tr)] = e THEN tr ELSE Append(tr, e)

\* ------------------------------------------------------------------------
\* BackupState
\* ------------------------------------------------------------------------
BackupStateInit ==
    [stage |-> "INIT", containers_stopped |-> FALSE, plex_started |-> FALSE,
     other_services_started |-> FALSE, maintenance_window_id |-> "None",
     backup_file |-> "None", backup_created |-> FALSE, backup_verified |-> FALSE,
     rclone_completed |-> FALSE, errors |-> <<>>, warnings |-> <<>>]

\* add_error / add_warning prefix the message with the current stage's name;
\* a message is the sequence of the parts its f-string is built from
add_error(bs, error) ==
    [bs EXCEPT !.errors = Append(@, [stage |-> bs.stage, text |-> error])]
warning_as_error(bs, warning) == add_error(bs, warning)

add_warning(bs, warning) ==
    [bs EXCEPT !.warnings = Append(@, [stage |-> bs.stage, text |-> warning])]
has_critical_errors(bs) == Len(bs.errors) > 0

\* ------------------------------------------------------------------------
\* Lock file
\* ------------------------------------------------------------------------
NoLock == [exists |-> FALSE, mtime |-> 0, owner |-> 0]

stale_at_deadline(lf, t) ==
    IF ~lf.exists THEN TRUE
    ELSE (t - lf.mtime) >= SCRIPT_OVERALL_TIMEOUT

is_stale_lock(lf, t) ==
    IF ~lf.exists THEN TRUE                      \* stat() raised OSError
    ELSE (t - lf.mtime) > SCRIPT_OVERALL_TIMEOUT

lock_left_behind(lf) == lf

\* cleanup_lock: closes this invocation's descriptor if it has one, and
\* unlinks lock_path whoever created it
cleanup_lock_file(lf) == NoLock

\* acquire_lock yields (the with-body runs) when os.open created the file,
\* at once or after a stale file was removed
LockAcquired(lf, t) == ~lf.exists \/ is_stale_lock(lf, t)

\* the lock file once acquire_lock has yielded or raised; on the raise its
\* `finally` has already run cleanup_lock
acquire_lock_file(lf, t, p) ==
    IF LockAcquired(lf, t)
    THEN [exists |-> TRUE, mtime |-> t, owner |-> p]
    ELSE cleanup_lock_file(lf)

\* ------------------------------------------------------------------------
\* Cancellation
\* ------------------------------------------------------------------------
SdPcs == {"sd_loop", "sd_stageA", "sd_stageB", "sd_stageC", "sd_exhausted"}
RcPcs == {"rc_attempt", "rc_execute"}

\* the retry loop main is inside at position p, if any
CallAt(p) ==
    IF p \in SdPcs THEN "ensure_all_containers_stopped"
    ELSE IF p \in RcPcs THEN "run_rclone_sync_with_retry"
    ELSE "main"

\* signal_handler: SIGTERM, SIGINT and SIGHUP only set the flag
signal_handler ==
    /\ pc # "done"
    /\ ~shutdown_requested
    /\ shutdown_requested' = TRUE
    /\ cancel_at' = [call |-> CallAt(pc), retry |-> retry,
                     attempt |-> IF detail THEN attempt ELSE 0,
                     sleeping |-> detail /\ pc = "rc_execute" /\ attempt > 1]
    /\ UNCHANGED <<pc, backup_state, success, exit_code, running, final_status,
                   raised, trace, envVars, finVars, sdVars, rcVars, lockVars>>

\* a poll that never sees the flag
poll_ignores_flag == FALSE

\* check_shutdown_requested raises KeyboardInterrupt exactly when this holds
check_shutdown_requested == shutdown_requested

ShutdownSignalReceived == <<"Shutdown signal received">>

\* ------------------------------------------------------------------------
\* The except clauses of main
\* ------------------------------------------------------------------------
handler_clears_flags(kind, msg, bs) ==
    IF kind \in {"KeyboardInterrupt", "Exception"}
    THEN add_error([bs EXCEPT !.containers_stopped = FALSE, !.backup_created = FALSE],
                   <<"Script interrupted">>)
    ELSE bs

\* what the except clause that catches `kind` does to the run state
\* (FileExistsError: sys.exit(1); SystemExit: no clause catches it)
except_handler(kind, msg, bs) ==
    CASE kind = "KeyboardInterrupt" -> add_error(bs, <<"Script interrupted">>)
      [] kind = "Exception" -> add_error(bs, <<"Unexpected error: ">> \o msg)
      [] OTHER -> bs

\* the "Critical Failure" notification of the `except Exception` clause
handler_notification(kind) ==
    IF kind = "Exception" /\ ~dry_run_mode
    THEN <<Ev("discord", {}, "Critical Failure")>>
    ELSE <<>>

\* an exception leaves the with-block: acquire_lock's finally runs
\* cleanup_lock, the matching except clause runs, then the finally of main
Unwind(kind, msg, bs, tr) ==
    /\ lockFile' = cleanup_lock_file(lockFile)
    /\ lock_fd' = [lock_fd EXCEPT ![Self] = "None"]
    /\ backup_state' = except_handler(kind, msg, bs)
    /\ trace' = tr \o handler_notification(kind)
    /\ raised' = [kind |-> kind, stage |-> bs.stage]
    /\ pc' = "finalization"

\* the step stays inside the with-block
Goto(next, bs, tr) ==
    /\ pc' = next
    /\ backup_state' = bs
    /\ trace' = tr
    /\ UNCHANGED <<lockFile, lock_fd, raised>>

\* ------------------------------------------------------------------------
\* Docker helpers
\* ------------------------------------------------------------------------
\* get_docker_compose_files: <<plex_compose, other_compose>>
get_docker_compose_files ==
    IF ~stacksIsDir THEN <<{}, {}>> ELSE <<{PLEX_COMPOSE_FILE}, OtherFiles>>

\* file.is_file() for a compose file: the files live under DOCKER_STACKS_DIR
is_file(f) == stacksIsDir

\* outcomes of `docker ps -q`: a listing, a non-zero exit, a timeout
PsOutcomes == {"ok", "fail", "timeout"}
TimeoutExpired == <<"Command docker ps -q timed out after 30 seconds">>

\* get_running_container_ids when subprocess.run returned
get_running_container_ids(o, run) == IF o = "ok" THEN run ELSE {}

commands_in_dry_run(files) ==
    IF ~DOCKER_ENABLE_STOP_START THEN {}
    ELSE {f \in files : is_file(f)}

\* the compose files manage_docker_services issues a command for
CommandedFiles(files) ==
    IF ~DOCKER_ENABLE_STOP_START \/ dry_run_mode THEN {}
    ELSE {f \in files : is_file(f)}

\* the containers a successful / failed `docker compose up -d` brings up
StartOutcomes(files, ok) ==
    IF CommandedFiles(files) = {} THEN {{}}
    ELSE IF ok THEN {ContainersOf(CommandedFiles(files))}
    ELSE SUBSET ContainersOf(CommandedFiles(files)) \ {ContainersOf(CommandedFiles(files))}

\* manage_docker_services(files, "start"): its return value
manage_start_result(files, ok) == CommandedFiles(files) = {} \/ ok

\* a start that is followed by a stop command of the same files
stop_after_start(files, where) ==
    IF CommandedFiles(files) = {} THEN <<>>
    ELSE <<Ev("compose_up", CommandedFiles(files), where),
           Ev("stop_or_kill", {}, "shutdown")>>

\* manage_docker_services(files, "start"): the commands it issues
manage_start_events(files, where) ==
    IF CommandedFiles(files) = {} THEN <<>>
    ELSE <<Ev("compose_up", CommandedFiles(files), where)>>

\* a stop or kill command of the shutdown loop, as `trace` records it
StopOrKill == Ev("stop_or_kill", {}, "shutdown")

\* ------------------------------------------------------------------------
\* main: the staged sequence (the body of `with acquire_lock(LOCK_FILE)`)
\* ------------------------------------------------------------------------
\* with acquire_lock(LOCK_FILE): the body is entered, or FileExistsError is
\* raised and `except FileExistsError: sys.exit(1)` leads to the finally
main_acquire_lock ==
    /\ pc = "start"
    /\ lockFile' = acquire_lock_file(lockFile, now, Self)
    /\ IF LockAcquired(lockFile, now)
       THEN /\ lock_fd' = [lock_fd EXCEPT ![Self] = "fd"]
            /\ pc' = "preflight"
            /\ raised' = raised
       ELSE /\ lock_fd' = [lock_fd EXCEPT ![Self] = "None"]
            /\ pc' = "finalization"
            /\ raised' = [kind |-> "FileExistsError", stage |-> backup_state.stage]
    /\ UNCHANGED <<backup_state, success, exit_code, shutdown_requested, running,
                   final_status, cancel_at, trace, envVars, finVars, sdVars, rcVars, ipc, now>>

\* stage PREFLIGHT: pre_flight_checks returns or calls sys.exit(1)
main_preflight ==
    /\ pc = "preflight"
    /\ LET bs == [backup_state EXCEPT !.stage = "PREFLIGHT"] IN
       \E passed \in BOOLEAN :
          IF passed THEN Goto("maintenance", bs, trace)
          ELSE Unwind("SystemExit", <<>>, bs, trace)
    /\ UNCHANGED <<success, exit_code, shutdown_requested, running, final_status,
                   cancel_at, envVars, finVars, sdVars, rcVars, ipc, now>>

\* create_backup_maintenance_window: an id, or None in dry-run mode, without
\* the client library, or when any API call fails
WindowOutcomes ==
    IF ~ENABLE_UPTIME_KUMA_MAINTENANCE \/ dry_run_mode THEN {"None"}
    ELSE {"None", "mw"}

\* stage MAINTENANCE_WINDOW, then compose-file discovery and rotation
main_maintenance_window ==
    /\ pc = "maintenance"
    /\ \E id \in WindowOutcomes :
          Goto("shutdown",
               [backup_state EXCEPT !.stage = "MAINTENANCE_WINDOW",
                                    !.maintenance_window_id = id],
               IF id = "None" THEN trace
               ELSE Append(trace, Ev("kuma_add_maintenance", {}, id)))
    /\ UNCHANGED <<success, exit_code, shutdown_requested, running, final_status,
                   cancel_at, envVars, finVars, sdVars, rcVars, ipc, now>>

\* ------------------------------------------------------------------------
\* ensure_all_containers_stopped, called from stage CONTAINER_SHUTDOWN
\* ------------------------------------------------------------------------
retry_not_counted(r, rem, el) ==
    /\ retry' = IF pc' \in SdPcs THEN retry ELSE 0
    /\ remaining' = IF pc' \in SdPcs THEN rem ELSE {}
    /\ sd_elapsed' = IF pc' \in SdPcs THEN el ELSE 0

stale_remaining(r, rem, el) ==
    /\ retry' = IF pc' \in SdPcs THEN r ELSE 0
    /\ remaining' = IF pc' \in SdPcs
                     THEN (IF remaining = {} THEN rem ELSE remaining) ELSE {}
    /\ sd_elapsed' = IF pc' \in SdPcs THEN el ELSE 0

\* the locals of ensure_all_containers_stopped exist while the call runs
SdLocals(r, rem, el) ==
    /\ retry' = IF pc' \in SdPcs THEN r ELSE 0
    /\ remaining' = IF pc' \in SdPcs THEN rem ELSE {}
    /\ sd_elapsed' = IF pc' \in SdPcs THEN el ELSE 0

\* the commands of the call, recorded one by one when `detail` is set
SdTrace(evs) == sd_trace' = IF detail THEN sd_trace \o evs ELSE sd_trace

return_to_sync(result, bs, tr) ==
    LET bs2 == [bs EXCEPT !.containers_stopped = result] IN
    IF check_shutdown_requested
    THEN Unwind("KeyboardInterrupt", ShutdownSignalReceived, bs2, tr)
    ELSE Goto("sync", bs2, tr)

\* the function returned `result`: main stores it and polls the flag
SdReturn(result, bs, tr) ==
    LET bs2 == [bs EXCEPT !.containers_stopped = result] IN
    IF check_shutdown_requested
    THEN Unwind("KeyboardInterrupt", ShutdownSignalReceived, bs2, tr)
    ELSE Goto("backup", bs2, tr)

no_early_return(o, ids, bs, tr, next) ==
    IF o = "timeout" THEN Unwind("Exception", TimeoutExpired, bs, tr)
    ELSE Goto(next, bs, tr)

\* `x = get_running_container_ids()` followed by `if not x: return True`,
\* where the enumeration ended as `o` and listed `ids`
SdCheck(o, ids, bs, tr, next) ==
    IF o = "timeout" THEN Unwind("Exception", TimeoutExpired, bs, tr)
    ELSE IF ids = {} THEN SdReturn(TRUE, bs, tr)
    ELSE Goto(next, bs, tr)

\* stage CONTAINER_SHUTDOWN: the call, up to the start of the retry loop
sd_entry ==
    /\ pc = "shutdown"
    /\ LET bs == [backup_state EXCEPT !.stage = "CONTAINER_SHUTDOWN"] IN
       IF ~DOCKER_ENABLE_STOP_START
       THEN SdReturn(bs.containers_stopped, bs, trace)
       ELSE IF dry_run_mode
       THEN SdReturn(TRUE, bs, trace)
       ELSE Goto("sd_loop", bs, trace)
    /\ SdLocals(0, {}, 0)
    /\ SdTrace(<<>>)
    /\ UNCHANGED <<success, exit_code, shutdown_requested, running, final_status,
                   cancel_at, envVars, finVars, rcVars, ipc, now>>

\* top of one iteration: cancellation poll, retry sleep, overall timeout,
\* first enumeration
sd_loop ==
    /\ pc = "sd_loop"
    /\ LET slept == IF retry > 0 THEN sd_elapsed + DOCKER_SHUTDOWN_RETRY_DELAY
                    ELSE sd_elapsed IN
       IF retry >= DOCKER_SHUTDOWN_MAX_RETRIES
       THEN /\ Goto("sd_exhausted", backup_state, trace)
            /\ SdLocals(retry, remaining, sd_elapsed)
            /\ SdTrace(<<>>)
       ELSE IF check_shutdown_requested
       THEN /\ Unwind("KeyboardInterrupt", ShutdownSignalReceived, backup_state, trace)
            /\ SdLocals(retry, remaining, sd_elapsed)
            /\ SdTrace(<<>>)
       ELSE IF slept > DOCKER_SHUTDOWN_OVERALL_TIMEOUT
       THEN /\ Goto("sd_exhausted", backup_state, trace)
            /\ SdLocals(retry, remaining, slept)
            /\ SdTrace(IF retry > 0 THEN <<Ev("sleep", {}, "retry delay")>> ELSE <<>>)
       ELSE \E o \in PsOutcomes :
               LET ids == get_running_container_ids(o, running) IN
               /\ SdCheck(o, ids, backup_state, trace, "sd_stageA")
               /\ SdLocals(retry, remaining, slept)
               /\ SdTrace((IF retry > 0 THEN <<Ev("sleep", {}, "retry delay")>> ELSE <<>>)
                          \o <<Ev("docker_ps", ids, o)>>)
    /\ UNCHANGED <<success, exit_code, shutdown_requested, running, final_status,
                   cancel_at, envVars, finVars, rcVars, ipc, now>>

\* Stage 1: manage_docker_services(compose_files, "stop"), then the check
sd_stageA ==
    /\ pc = "sd_stageA"
    /\ LET files == CommandedFiles(get_docker_compose_files[1] \cup get_docker_compose_files[2])
           tr == IF files = {} THEN trace ELSE Once(trace, StopOrKill) IN
       \E stopped \in SUBSET (running \cap ContainersOf(files)), o \in PsOutcomes :
          LET ids == get_running_container_ids(o, running \ stopped) IN
          /\ running' = running \ stopped
          /\ SdCheck(o, ids, backup_state, tr, "sd_stageB")
          /\ SdLocals(retry, ids, sd_elapsed)
          /\ SdTrace((IF files = {} THEN <<>> ELSE <<Ev("compose_stop", files, "A")>>)
                     \o <<Ev("docker_ps", ids, o)>>)
    /\ UNCHANGED <<success, exit_code, shutdown_requested, final_status,
                   cancel_at, envVars, finVars, rcVars, ipc, now>>

\* Stage 2: force_stop_containers(remaining), then the check
sd_stageB ==
    /\ pc = "sd_stageB"
    /\ \E stopped \in SUBSET (running \cap remaining), o \in PsOutcomes :
          LET ids == get_running_container_ids(o, running \ stopped) IN
          /\ running' = running \ stopped
          /\ SdCheck(o, ids, backup_state, Once(trace, StopOrKill), "sd_stageC")
          /\ SdLocals(retry, ids, sd_elapsed)
          /\ SdTrace(<<Ev("docker_stop", remaining, "B"), Ev("docker_ps", ids, o)>>)
    /\ UNCHANGED <<success, exit_code, shutdown_requested, final_status,
                   cancel_at, envVars, finVars, rcVars, ipc, now>>

\* Stage 3: force_kill_containers(remaining), then the check; when containers
\* survive, the next iteration
sd_stageC ==
    /\ pc = "sd_stageC"
    /\ \E stopped \in SUBSET (running \cap remaining), o \in PsOutcomes,
          d \in {QuickCycle, SlowCycle} :
          LET ids == get_running_container_ids(o, running \ stopped) IN
          /\ running' = running \ stopped
          /\ SdCheck(o, ids, backup_state, Once(trace, StopOrKill), "sd_loop")
          /\ SdLocals(retry + 1, remaining, sd_elapsed + d)
          /\ SdTrace(<<Ev("docker_kill", remaining, "C"), Ev("docker_ps", ids, o)>>)
    /\ UNCHANGED <<success, exit_code, shutdown_requested, final_status,
                   cancel_at, envVars, finVars, rcVars, ipc, now>>

\* the container names the warning lists
ContainerName(c) == ToString(c)

RECURSIVE names_repeated(_)
names_repeated(ids) ==
    IF ids = {} THEN <<>>
    ELSE LET c == CHOOSE x \in ids : \A y \in ids : x <= y
         IN <<ContainerName(c), ContainerName(c)>> \o names_repeated(ids \ {c})

RECURSIVE container_list(_)
container_list(ids) ==
    IF ids = {} THEN <<>>
    ELSE LET c == CHOOSE x \in ids : \A y \in ids : x <= y
         IN <<ContainerName(c)>> \o container_list(ids \ {c})

\* after the loop ("All retries exhausted"): the last enumeration, the
\* notification and the warning
sd_exhausted ==
    /\ pc = "sd_exhausted"
    /\ \E o \in PsOutcomes :
          LET ids == get_running_container_ids(o, running) IN
          /\ IF o = "timeout"
             THEN Unwind("Exception", TimeoutExpired, backup_state, trace)
             ELSE IF ids # {}
             THEN SdReturn(FALSE,
                           add_warning(backup_state,
                                       <<"Containers still running: ">> \o container_list(ids)),
                           Append(trace, Ev("discord", {}, "Container Shutdown Failed")))
             ELSE SdReturn(TRUE, backup_state, trace)
          /\ SdLocals(retry, remaining, sd_elapsed)
          /\ SdTrace(<<Ev("loop_left", {retry}, "retries"), Ev("docker_ps", ids, o)>>)
    /\ UNCHANGED <<success, exit_code, shutdown_requested, running, final_status,
                   cancel_at, envVars, finVars, rcVars, ipc, now>>

\* ------------------------------------------------------------------------
\* main: snapshot, priority restart, verification
\* ------------------------------------------------------------------------
\* create_backup: True, True after add_warning (skipped directories, Plex
\* data not archived), or BackupCreationError; True at once in dry-run mode
CreateOutcomes ==
    IF dry_run_mode THEN {"dry-run"} ELSE {"ok", "warning", "BackupCreationError"}

BackupCreationError == <<"Temporary tar file is empty or missing">>

snapshot_result_ignored ==
    /\ pc = "backup"
    /\ \E o \in CreateOutcomes :
          LET bs == [backup_state EXCEPT !.stage = "BACKUP_CREATION",
                                         !.backup_file = "backup.tar.gz.enc"]
              tr == Append(trace, Ev("create_backup", {}, o)) IN
          Goto("restart_plex", [bs EXCEPT !.backup_created = TRUE], tr)
    /\ UNCHANGED <<success, exit_code, shutdown_requested, running, final_status,
                   cancel_at, envVars, finVars, sdVars, rcVars, ipc, now>>

\* stage BACKUP_CREATION
main_backup_creation ==
    /\ pc = "backup"
    /\ \E o \in CreateOutcomes :
          LET bs == [backup_state EXCEPT !.stage = "BACKUP_CREATION",
                                         !.backup_file = "backup.tar.gz.enc"]
              bw == IF o = "warning" THEN add_warning(bs, <<"Skipped directories: ">>)
                    ELSE bs
              tr == Append(trace, Ev("create_backup", {}, o)) IN
          IF o = "BackupCreationError"
          THEN Unwind("Exception", BackupCreationError,
                      add_error(bs, BackupCreationError), tr)
          ELSE Goto("restart_plex", [bw EXCEPT !.backup_created = TRUE], tr)
    /\ UNCHANGED <<success, exit_code, shutdown_requested, running, final_status,
                   cancel_at, envVars, finVars, sdVars, rcVars, ipc, now>>

\* stage CONTAINER_RESTART_PLEX, then the cancellation poll
main_restart_plex ==
    /\ pc = "restart_plex"
    /\ LET bs == [backup_state EXCEPT !.stage = "CONTAINER_RESTART_PLEX"]
           plex_compose == get_docker_compose_files[1] IN
       \E ok \in BOOLEAN :
       \E up \in StartOutcomes(plex_compose, ok) :
          LET called == DOCKER_ENABLE_STOP_START /\ plex_compose # {}
              bs2 == IF called /\ manage_start_result(plex_compose, ok)
                     THEN [bs EXCEPT !.plex_started = TRUE] ELSE bs
              tr == IF called
                    THEN Append(trace, Ev("start_priority", plex_compose, "stage"))
                         \o manage_start_events(plex_compose, "stage")
                    ELSE trace IN
          /\ (~called \/ CommandedFiles(plex_compose) = {}) => ok
          /\ running' = IF called THEN running \cup up ELSE running
          /\ IF check_shutdown_requested
             THEN Unwind("KeyboardInterrupt", ShutdownSignalReceived, bs2, tr)
             ELSE Goto("verify", bs2, tr)
    /\ UNCHANGED <<success, exit_code, shutdown_requested, final_status,
                   cancel_at, envVars, finVars, sdVars, rcVars, ipc, now>>

\* verify_backup: True (set_permissions may add a warning), or
\* BackupVerificationError; True at once in dry-run mode
VerifyOutcomes ==
    IF dry_run_mode THEN {"dry-run"} ELSE {"ok", "warning", "BackupVerificationError"}

BackupVerificationError == <<"Decryption failed: ">>

archive_discarded(bs, e) ==
    add_error([bs EXCEPT !.backup_created = FALSE, !.backup_file = "None"], e)

\* what main records when verify_backup raised BackupVerificationError
record_verification_failure(bs, e) == add_error(bs, e)

\* stage BACKUP_VERIFICATION, then the cancellation poll
main_verify ==
    /\ pc = "verify"
    /\ \E o \in VerifyOutcomes :
          LET bs == [backup_state EXCEPT !.stage = "BACKUP_VERIFICATION"]
              bs2 == CASE o = "BackupVerificationError" ->
                            record_verification_failure(bs, BackupVerificationError)
                       [] o = "warning" ->
                            add_warning([bs EXCEPT !.backup_verified = TRUE],
                                        <<"Could not set permissions: ">>)
                       [] OTHER -> [bs EXCEPT !.backup_verified = TRUE]
              tr == Append(trace, Ev("verify_backup", {}, o)) IN
          IF check_shutdown_requested
          THEN Unwind("KeyboardInterrupt", ShutdownSignalReceived, bs2, tr)
          ELSE Goto("sync", bs2, tr)
    /\ UNCHANGED <<success, exit_code, shutdown_requested, running, final_status,
                   cancel_at, envVars, finVars, sdVars, rcVars, ipc, now>>

\* ------------------------------------------------------------------------
\* run_rclone_sync_with_retry, called from stage RCLONE_SYNC
\* ------------------------------------------------------------------------
fatal_codes_without_7 == {1, 3, 4}

\* _is_retryable_rclone_error
non_retryable == {1, 3, 4, 7}
is_retryable_rclone_error(exit_code_) == exit_code_ \notin non_retryable

\* exit codes of the rclone process
RcloneExitCodes == 0..9
\* result["last_error"] of one attempt: the last error-level log messages, or "None"
RcloneLogErrors == {<<"None">>, <<"log error">>}
OperationTimeout == <<"Operation timed out after 7200 seconds">>
RcloneException == <<"rclone exception">>

uncapped(a, b) == a

\* min(a, b)
Min(a, b) == IF a <= b THEN a ELSE b

\* a transfer attempt, as `trace` records it
Transfer == Ev("rclone", {}, "sync")

\* the locals of run_rclone_sync_with_retry exist while the call runs
RcLocals(a, d, e) ==
    /\ attempt' = IF pc' \in RcPcs THEN a ELSE 0
    /\ retry_delay' = IF pc' \in RcPcs THEN d ELSE RCLONE_RETRY_DELAY
    /\ last_error' = IF pc' \in RcPcs THEN e ELSE <<>>

\* time.monotonic() - start_time while the call runs, followed when `detail` is set
RcClock(t) == rc_elapsed' = IF detail /\ pc' \in RcPcs THEN t ELSE 0

\* the sleeps and transfers of the call, recorded one by one when `detail` is set
RcTrace(evs) == rc_trace' = IF detail THEN rc_trace \o evs ELSE rc_trace

\* main acts on the summary run_rclone_sync_with_retry returned; the local
\* rclone_summary is not read again, it is kept when `detail` is set
SyncReturn(summary, bs, tr) ==
    /\ rclone_summary' = IF detail THEN summary ELSE rclone_summary
    /\ CASE summary.status = "success" ->
              Goto("determine", [bs EXCEPT !.rclone_completed = TRUE],
                   Append(tr, Ev("discord", {}, "Rclone Sync Status: Success")))
         [] summary.status = "failed" ->
              Goto("determine",
                   add_error(bs, <<"Rclone sync failed: ">> \o summary.last_error),
                   Append(tr, Ev("discord", {}, "Rclone Sync Status: Failed")))
         [] OTHER -> Goto("determine", bs, tr)

Skipped == [status |-> "skipped", exit_code |-> 0, attempts |-> 0, last_error |-> <<>>]

\* what one call of _execute_rclone_sync can do: return the exit code of the
\* process with the error text parsed from its log, time out, or raise
AttemptOutcomes ==
    [kind : {"exit"}, code : RcloneExitCodes, error : RcloneLogErrors]
    \cup {[kind |-> "OperationTimeout", code |-> 1, error |-> OperationTimeout],
          [kind |-> "Exception", code |-> 1, error |-> RcloneException]}

\* subprocess.run(..., timeout=RCLONE_OVERALL_TIMEOUT): an attempt that times
\* out has run for the whole timeout
attempt_duration(o) ==
    IF o.kind = "OperationTimeout" THEN RCLONE_OVERALL_TIMEOUT ELSE TransferTime

timeout_is_fatal(o) ==
    IF o.kind = "exit" /\ o.code = 0 THEN "success"
    ELSE IF o.kind = "OperationTimeout" THEN "fatal"
    ELSE IF o.kind = "exit" /\ ~is_retryable_rclone_error(o.code) THEN "fatal"
    ELSE "retryable"

\* the body of the try statement of the retry loop: what the loop does with
\* the outcome of an attempt
attempt_class(o) ==
    IF o.kind # "exit" THEN "retryable"
    ELSE IF o.code = 0 THEN "success"
    ELSE IF ~is_retryable_rclone_error(o.code) THEN "fatal"
    ELSE "retryable"

attempts_off_by_one(a) == a - 1

\* result["attempts"] = attempt
attempts_made(a) == a

exhausted_error_lost(e) == <<"All attempts failed. Last error: ">>

\* "last_error" of the summary returned after the last attempt
exhausted_error(e) == <<"All attempts failed. Last error: ">> \o e

\* stage RCLONE_SYNC: the call, up to the start of the retry loop
main_sync ==
    /\ pc = "sync"
    /\ LET bs == [backup_state EXCEPT !.stage = "RCLONE_SYNC"]
           tr == Append(trace, Ev("run_rclone_sync_with_retry", {}, "call")) IN
       IF ~(ENABLE_RCLONE_UPLOAD /\ bs.backup_created)
       THEN Goto("determine", bs, trace) /\ rclone_summary' = rclone_summary
       ELSE IF ~ENABLE_RCLONE_UPLOAD \/ dry_run_mode
       THEN SyncReturn(Skipped, bs, tr)
       ELSE /\ Goto("rc_attempt", bs,
                    Append(tr, Ev("discord", {}, "Rclone Sync Status: Started")))
            /\ rclone_summary' = rclone_summary
    /\ RcLocals(1, RCLONE_RETRY_DELAY, <<>>)
    /\ RcTrace(<<>>)
    /\ RcClock(0)
    /\ UNCHANGED <<success, exit_code, shutdown_requested, running, final_status,
                   cancel_at, envVars, finVars, sdVars, logVars, ipc, now>>

\* the top of one iteration of the retry loop, or the end of the loop: the
\* cancellation poll
rc_attempt ==
    /\ pc = "rc_attempt"
    /\ IF attempt > RCLONE_MAX_RETRIES
       THEN SyncReturn([status |-> "failed", exit_code |-> 1,
                        attempts |-> RCLONE_MAX_RETRIES,
                        last_error |-> exhausted_error(last_error)],
                       backup_state, trace)
       ELSE IF check_shutdown_requested
       THEN /\ Unwind("KeyboardInterrupt", ShutdownSignalReceived, backup_state, trace)
            /\ rclone_summary' = rclone_summary
       ELSE /\ Goto("rc_execute", backup_state, trace)
            /\ rclone_summary' = rclone_summary
    /\ RcLocals(attempt, retry_delay, last_error)
    /\ RcTrace(<<>>)
    /\ RcClock(rc_elapsed)
    /\ UNCHANGED <<success, exit_code, shutdown_requested, running, final_status,
                   cancel_at, envVars, finVars, sdVars, logVars, ipc, now>>

\* the rest of the iteration: before attempts 2, 3, ... the backoff wait
\* time.sleep(retry_delay), after which the delay is doubled up to
\* RCLONE_RETRY_MAX_DELAY; then _execute_rclone_sync and what the loop does
\* with its outcome
rc_execute ==
    /\ pc = "rc_execute"
    /\ \E o \in AttemptOutcomes :
          LET tr == Once(trace, Transfer)
              slept == IF attempt > 1 THEN retry_delay ELSE 0
              delay == IF attempt > 1
                       THEN Min(retry_delay * 2, RCLONE_RETRY_MAX_DELAY)
                       ELSE retry_delay IN
          /\ RcTrace((IF attempt > 1 THEN <<Ev("sleep", {retry_delay}, "backoff")>>
                      ELSE <<>>)
                     \o <<Ev("elapsed", {rc_elapsed + slept}, "attempt begins"),
                          Ev("rclone", {attempt}, "sync"),
                          Ev(o.kind, IF o.kind = "exit" THEN {o.code} ELSE {},
                             "attempt ends")>>)
          /\ CASE attempt_class(o) = "success" ->
                    /\ SyncReturn([status |-> "success", exit_code |-> o.code,
                                   attempts |-> attempts_made(attempt),
                                   last_error |-> o.error],
                                  backup_state, tr)
                    /\ RcLocals(attempt, delay, last_error)
               [] attempt_class(o) = "fatal" ->
                    /\ SyncReturn([status |-> "failed", exit_code |-> o.code,
                                   attempts |-> attempts_made(attempt),
                                   last_error |-> o.error],
                                  backup_state, tr)
                    /\ RcLocals(attempt, delay, last_error)
               [] OTHER ->
                    /\ Goto("rc_attempt", backup_state, tr)
                    /\ RcLocals(attempt + 1, delay, o.error)
                    /\ rclone_summary' = rclone_summary
          /\ RcClock(rc_elapsed + slept + attempt_duration(o))
    /\ UNCHANGED <<success, exit_code, shutdown_requested, running, final_status,
                   cancel_at, envVars, finVars, sdVars, logVars, ipc, now>>

\* ------------------------------------------------------------------------
\* _execute_rclone_sync: the scan of the rclone log (--use-json-log)
\* ------------------------------------------------------------------------
\* a line of the log file: text that does not start with "{", text that
\* starts with "{" and is no JSON, or a JSON object with its "level", its
\* "msg" (a string or not) and its "stats" (absent, a dict, or another value)
LogLine(kind, level, msg_is_str, msg, stats_kind, stats) ==
    [kind |-> kind, level |-> level, msg_is_str |-> msg_is_str, msg |-> msg,
     stats_kind |-> stats_kind, stats |-> stats]

\* the empty dict
NoStats == [k \in {} |-> 0]
ProgressStats ==
    [transfers |-> 5, bytes |-> 1024000, errors |-> 0, checks |-> 10,
     totalBytes |-> 2048000]
FinalStats ==
    [transfers |-> 10, bytes |-> 2048000, errors |-> 1, checks |-> 20,
     totalBytes |-> 4096000]

TextLine == LogLine("text", "none", FALSE, "", "absent", NoStats)
BrokenLine == LogLine("broken", "none", FALSE, "", "absent", NoStats)
Record(level, msg, stats_kind, stats) ==
    LogLine("object", level, TRUE, msg, stats_kind, stats)

\* the lines the log of one attempt is made of
LogLines ==
    {TextLine, BrokenLine,
     Record("info", "Starting sync", "absent", NoStats),
     Record("info", "Sync progress", "dict", ProgressStats),
     Record("info", "Final stats", "dict", FinalStats),
     Record("info", "Sync progress", "number", NoStats),
     Record("error", "File not found", "absent", NoStats),
     Record("error", "Permission denied", "absent", NoStats),
     LogLine("object", "error", FALSE, "", "absent", NoStats),
     Record("error", "Transfer failed", "dict", FinalStats),
     Record("error", "Permission denied", "number", NoStats)}

\* the logs of at most MaxLogLines lines
RcloneLogs == UNION {[1..n -> LogLines] : n \in 0..MaxLogLines}

\* line.strip().startswith("{"), json.loads(line) succeeds and gives a dict
is_json_object(line) == line.kind = "object"

\* `"stats" in log_entry and isinstance(stats_data, dict)`
has_stats_object(line) == is_json_object(line) /\ line.stats_kind = "dict"

first_stats_kept(fs, line) ==
    IF has_stats_object(line) /\ fs = NoStats THEN line.stats ELSE fs

\* final_stats after the loop body has run for `line`
captured_stats(fs, line) == IF has_stats_object(line) THEN line.stats ELSE fs

\* error_lines after the loop body has run for `line`: the elif branch
collected_errors(el, line) ==
    IF is_json_object(line) /\ ~has_stats_object(line)
       /\ line.level = "error" /\ line.msg_is_str
    THEN Append(el, line.msg)
    ELSE el

\* dict.get(key, default)
Get(d, key, default) == IF key \in DOMAIN d THEN d[key] ELSE default

\* error_lines[-3:]
last_three(el) == IF Len(el) <= 3 THEN el ELSE SubSeq(el, Len(el) - 2, Len(el))

\* "\n".join(error_lines[-3:]) if error_lines else "None": the joined text
\* is kept as the sequence of its lines
last_error_of(el) == IF el = <<>> THEN <<"None">> ELSE last_three(el)

\* the dict _execute_rclone_sync returns (numbers before they are formatted)
execute_result(code, fs, el) ==
    [status |-> IF code = 0 THEN "success" ELSE "failed",
     exit_code |-> code,
     transfers |-> Get(fs, "transfers", 0),
     bytes_transferred |-> Get(fs, "bytes", 0),
     errors_count |-> Get(fs, "errors", Len(el)),
     checks_count |-> Get(fs, "checks", 0),
     total_bytes |-> Get(fs, "totalBytes", 0),
     last_error |-> last_error_of(el)]

\* _execute_rclone_sync has not returned
NoResult == [execute_result(0, NoStats, <<>>) EXCEPT !.status = "none"]

\* exit codes of the rclone process followed in ParseSpec
ParsedExitCodes == {0, 5}

\* one iteration of `for line in f`
parse_line ==
    /\ pc = "rc_execute"
    /\ sync_result = NoResult
    /\ line_no < Len(rclone_log)
    /\ line_no' = line_no + 1
    /\ final_stats' = captured_stats(final_stats, rclone_log[line_no + 1])
    /\ error_lines' = collected_errors(error_lines, rclone_log[line_no + 1])
    /\ UNCHANGED <<rclone_log, sync_result, mainVars, envVars, finVars, sdVars, lockVars,
                   attempt, retry_delay, last_error, rclone_summary, rc_trace,
                   rc_elapsed>>

\* after the loop: "Extract stats safely" and the return
parse_return ==
    /\ pc = "rc_execute"
    /\ sync_result = NoResult
    /\ line_no = Len(rclone_log)
    /\ \E code \in ParsedExitCodes :
          sync_result' = execute_result(code, final_stats, error_lines)
    /\ UNCHANGED <<rclone_log, line_no, final_stats, error_lines, mainVars, envVars, finVars,
                   sdVars, lockVars, attempt, retry_delay, last_error,
                   rclone_summary, rc_trace, rc_elapsed>>

\* ------------------------------------------------------------------------
\* main: end of the staged sequence
\* ------------------------------------------------------------------------
\* success decided by the archive alone, whatever the error list holds
success_ignores_errors(bs) == bs.backup_created

\* "Determine overall success"
determine_success(bs) == bs.backup_created /\ ~has_critical_errors(bs)

\* the last statement of the with-body; leaving the with runs cleanup_lock
main_determine_success ==
    /\ pc = "determine"
    /\ success' = determine_success(backup_state)
    /\ lockFile' = cleanup_lock_file(lockFile)
    /\ lock_fd' = [lock_fd EXCEPT ![Self] = "None"]
    /\ pc' = "finalization"
    /\ UNCHANGED <<backup_state, exit_code, shutdown_requested, running, final_status,
                   raised, cancel_at, trace, envVars, finVars, sdVars, rcVars, ipc, now>>

\* ------------------------------------------------------------------------
\* main: the finally block ("FINALIZATION")
\* ------------------------------------------------------------------------
\* a finalization that takes the priority workload for started
priority_restart_skipped(bs, plex_compose) == FALSE

priority_restart_repeated(bs, plex_compose) == plex_compose # {}

\* `if not backup_state.plex_started and plex_compose`
needs_priority_restart(bs, plex_compose) == ~bs.plex_started /\ plex_compose # {}

\* stage CONTAINER_RESTART_ALL: Plex first, if it was not started
fin_restart_plex ==
    /\ pc = "finalization"
    /\ LET bs == [backup_state EXCEPT !.stage = "CONTAINER_RESTART_ALL"]
           plex_compose == get_docker_compose_files[1]
           called == DOCKER_ENABLE_STOP_START /\ needs_priority_restart(bs, plex_compose) IN
       \E ok \in BOOLEAN :
       \E up \in StartOutcomes(plex_compose, ok) :
          /\ (~called \/ CommandedFiles(plex_compose) = {}) => ok
          /\ running' = IF called THEN running \cup up ELSE running
          /\ backup_state' = IF called /\ manage_start_result(plex_compose, ok)
                             THEN [bs EXCEPT !.plex_started = TRUE] ELSE bs
          /\ trace' = IF called
                      THEN Append(trace, Ev("start_priority", plex_compose, "finalization"))
                           \o manage_start_events(plex_compose, "finalization")
                      ELSE trace
    /\ pc' = "fin_others"
    /\ UNCHANGED <<success, exit_code, shutdown_requested, final_status, raised,
                   cancel_at, envVars, finVars, sdVars, rcVars, lockVars>>

\* "Starting all other services..."
fin_restart_others ==
    /\ pc = "fin_others"
    /\ LET other_compose == get_docker_compose_files[2]
           called == DOCKER_ENABLE_STOP_START /\ other_compose # {} IN
       \E ok \in BOOLEAN :
       \E up \in StartOutcomes(other_compose, ok) :
          /\ (~called \/ CommandedFiles(other_compose) = {}) => ok
          /\ running' = IF called THEN running \cup up ELSE running
          /\ backup_state' = IF called /\ manage_start_result(other_compose, ok)
                             THEN [backup_state EXCEPT !.other_services_started = TRUE]
                             ELSE backup_state
          /\ trace' = IF called
                      THEN Append(trace, Ev("start_others", other_compose, "finalization"))
                           \o manage_start_events(other_compose, "finalization")
                      ELSE trace
    /\ pc' = "fin_verify"
    /\ UNCHANGED <<success, exit_code, shutdown_requested, final_status, raised,
                   cancel_at, envVars, finVars, sdVars, rcVars, lockVars>>

\* emergency_container_restart: the call and the commands it issues
emergency_events ==
    LET files == get_docker_compose_files IN
    <<Ev("emergency_container_restart", {}, "call")>>
    \o (IF files[1] # {} THEN manage_start_events(files[1], "emergency") ELSE <<>>)
    \o (IF files[2] # {} THEN manage_start_events(files[2], "emergency") ELSE <<>>)

\* `except Exception as e` of the restart: what `e` is bound to while the
\* clause runs, <<>> when nothing was raised
caught_by_restart(o) == IF o = "timeout" THEN TimeoutExpired ELSE <<>>

\* `if not running` after the restart (or the except clause of the restart)
needs_emergency_restart(o, ids) == o = "timeout" \/ ids = {}

\* "Verify services are running": the enumeration, and the emergency restart
\* when it lists nothing or raises
fin_verify_running ==
    /\ pc = "fin_verify"
    /\ IF ~DOCKER_ENABLE_STOP_START
       THEN UNCHANGED <<running, trace, restart_error>>
       ELSE \E o \in PsOutcomes :
            LET ids == get_running_container_ids(o, running)
                tr == Append(trace, Ev("docker_ps", ids, "finalization"))
                files == get_docker_compose_files IN
            /\ restart_error' = caught_by_restart(o)
            /\ IF needs_emergency_restart(o, ids)
               THEN \E ok1 \in BOOLEAN, ok2 \in BOOLEAN :
                    \E up1 \in StartOutcomes(files[1], ok1), up2 \in StartOutcomes(files[2], ok2) :
                       /\ CommandedFiles(files[1]) = {} => ok1
                       /\ CommandedFiles(files[2]) = {} => ok2
                       /\ running' = running \cup up1 \cup up2
                       /\ trace' = tr \o emergency_events
               ELSE /\ running' = running
                    /\ trace' = tr
    /\ pc' = "fin_cleanup"
    /\ UNCHANGED <<backup_state, success, exit_code, shutdown_requested, final_status,
                   raised, cancel_at, envVars, sdVars, rcVars, lockVars>>

release_unconditional ==
    /\ pc = "fin_cleanup"
    /\ backup_state' = [backup_state EXCEPT !.stage = "CLEANUP"]
    /\ trace' = Append(trace, Ev("remove_backup_maintenance_window", {},
                                  backup_state.maintenance_window_id))
    /\ pc' = "fin_report"
    /\ restart_error' = <<>>
    /\ UNCHANGED <<success, exit_code, shutdown_requested, running, final_status,
                   raised, cancel_at, envVars, sdVars, rcVars, lockVars>>

\* stage CLEANUP: "Remove maintenance window"
fin_cleanup ==
    /\ pc = "fin_cleanup"
    /\ backup_state' = [backup_state EXCEPT !.stage = "CLEANUP"]
    /\ trace' = IF backup_state.maintenance_window_id # "None"
                THEN Append(trace, Ev("remove_backup_maintenance_window", {},
                                      backup_state.maintenance_window_id))
                ELSE trace
    /\ pc' = "fin_report"
    /\ restart_error' = <<>>
    /\ UNCHANGED <<success, exit_code, shutdown_requested, running, final_status,
                   raised, cancel_at, envVars, sdVars, rcVars, lockVars>>

\* send_final_status_notification: the status it reports
final_status_of(success_, bs) ==
    IF success_ /\ bs.errors = <<>> THEN "Success"
    ELSE IF success_ /\ bs.warnings # <<>> THEN "Completed with Warnings"
    ELSE "Failed"

exit_code_inverted(success_) == IF success_ THEN 1 ELSE 0

\* sys.exit(0 if success else 1)
exit_code_of(success_) == IF success_ THEN 0 ELSE 1

\* the final report, stage COMPLETE, sys.exit; the atexit hook registered by
\* acquire_lock runs cleanup_lock once more
fin_report ==
    /\ pc = "fin_report"
    /\ final_status' = final_status_of(success, backup_state)
    /\ trace' = Append(trace, Ev("send_final_status_notification", {},
                                  final_status_of(success, backup_state)))
                \o (IF dry_run_mode THEN <<>>
                    ELSE <<Ev("discord", {}, "Backup Status")>>)
    /\ backup_state' = [backup_state EXCEPT !.stage = "COMPLETE"]
    /\ exit_code' = exit_code_of(success)
    /\ lockFile' = IF raised.kind # "FileExistsError"
                   THEN cleanup_lock_file(lockFile) ELSE lockFile
    /\ pc' = "done"
    /\ UNCHANGED <<success, shutdown_requested, running, raised, cancel_at,
                   envVars, finVars, sdVars, rcVars, lock_fd, ipc, now>>

\* ------------------------------------------------------------------------
\* Spec: one invocation of main()
\* ------------------------------------------------------------------------
NoException == [kind |-> "none", stage |-> "INIT"]
NoSignal == [call |-> "none", retry |-> 0, attempt |-> 0, sleeping |-> FALSE]

\* the lock file an invocation can find: none, one another invocation
\* created just now, one older than SCRIPT_OVERALL_TIMEOUT
LockFilesFound(t) ==
    {NoLock,
     [exists |-> TRUE, mtime |-> t, owner |-> Other],
     [exists |-> TRUE, mtime |-> 0, owner |-> Other]}

\* the locals of _execute_rclone_sync before the scan of the log
LogUnread ==
    /\ line_no = 0
    /\ final_stats = NoStats
    /\ error_lines = <<>>
    /\ sync_result = NoResult

\* main's locals and the globals before the staged sequence has touched them
LocalsStart ==
    /\ success = FALSE
    /\ exit_code = "None"
    /\ shutdown_requested = FALSE
    /\ retry = 0
    /\ remaining = {}
    /\ sd_elapsed = 0
    /\ sd_trace = <<>>
    /\ attempt = 0
    /\ retry_delay = RCLONE_RETRY_DELAY
    /\ last_error = <<>>
    /\ rclone_summary = Skipped
    /\ rc_trace = <<>>
    /\ rc_elapsed = 0
    /\ rclone_log = <<>>
    /\ LogUnread
    /\ final_status = "None"
    /\ restart_error = <<>>
    /\ raised = NoException
    /\ cancel_at = NoSignal
    /\ trace = <<>>

\* main() before `with acquire_lock(LOCK_FILE)`
RunStart ==
    /\ pc = "start"
    /\ backup_state = BackupStateInit
    /\ LocalsStart

\* one invocation, on any host: dry run or not, stacks directory present or
\* not, any containers running, any lock file left by another invocation
Init ==
    /\ RunStart
    /\ detail = FALSE
    /\ dry_run_mode \in BOOLEAN
    /\ stacksIsDir \in BOOLEAN
    /\ running \in SUBSET Containers
    /\ now = MaxTicks * ClockStep
    /\ lockFile \in LockFilesFound(now)
    /\ lock_fd = [p \in Instances |-> IF p = Other /\ lockFile.exists THEN "fd" ELSE "None"]
    /\ ipc = [p \in Instances |-> IF p = Other /\ lockFile.exists THEN "staged" ELSE "idle"]

Next ==
    \/ signal_handler
    \/ main_acquire_lock
    \/ main_preflight
    \/ main_maintenance_window
    \/ sd_entry
    \/ sd_loop
    \/ sd_stageA
    \/ sd_stageB
    \/ sd_stageC
    \/ sd_exhausted
    \/ main_backup_creation
    \/ main_restart_plex
    \/ main_verify
    \/ main_sync
    \/ rc_attempt
    \/ rc_execute
    \/ main_determine_success
    \/ fin_restart_plex
    \/ fin_restart_others
    \/ fin_verify_running
    \/ fin_cleanup
    \/ fin_report

Spec == Init /\ [][Next]_vars

\* ------------------------------------------------------------------------
\* LockSpec: invocations racing for LOCK_FILE
\* ------------------------------------------------------------------------
\* `with acquire_lock(LOCK_FILE)` of invocation p: the body is entered, or
\* FileExistsError is raised after the finally of acquire_lock ran cleanup_lock
inst_acquire(p) ==
    /\ ipc[p] = "idle"
    /\ lockFile' = acquire_lock_file(lockFile, now, p)
    /\ IF LockAcquired(lockFile, now)
       THEN /\ lock_fd' = [lock_fd EXCEPT ![p] = "fd"]
            /\ ipc' = [ipc EXCEPT ![p] = "staged"]
       ELSE /\ lock_fd' = [lock_fd EXCEPT ![p] = "None"]
            /\ ipc' = [ipc EXCEPT ![p] = "rejected"]
    /\ UNCHANGED <<now, mainVars, envVars, finVars, sdVars, rcVars>>

\* invocation p leaves the with-block, normally or by an exception:
\* cleanup_lock closes its descriptor and unlinks LOCK_FILE
inst_leave(p) ==
    /\ ipc[p] = "staged"
    /\ lockFile' = cleanup_lock_file(lockFile)
    /\ lock_fd' = [lock_fd EXCEPT ![p] = "None"]
    /\ ipc' = [ipc EXCEPT ![p] = "finalization"]
    /\ UNCHANGED <<now, mainVars, envVars, finVars, sdVars, rcVars>>

\* invocation p finishes its finalization and exits; when it had created the
\* lock file, its atexit hook runs cleanup_lock once more
inst_exit(p) ==
    /\ ipc[p] \in {"finalization", "rejected"}
    /\ lockFile' = IF ipc[p] = "finalization" THEN cleanup_lock_file(lockFile)
                   ELSE lockFile
    /\ ipc' = [ipc EXCEPT ![p] = "exited"]
    /\ UNCHANGED <<lock_fd, now, mainVars, envVars, finVars, sdVars, rcVars>>

\* time.time() advances
tick ==
    /\ now < MaxTicks * ClockStep
    /\ now' = now + ClockStep
    /\ UNCHANGED <<lockFile, lock_fd, ipc, mainVars, envVars, finVars, sdVars, rcVars>>

LockInit ==
    /\ RunStart
    /\ detail = FALSE
    /\ dry_run_mode = FALSE
    /\ stacksIsDir = TRUE
    /\ running = {}
    /\ now = 0
    /\ lockFile = NoLock
    /\ lock_fd = [p \in Instances |-> "None"]
    /\ ipc = [p \in Instances |-> "idle"]

LockNext ==
    \/ \E p \in Instances : inst_acquire(p)
    \/ \E p \in Instances : inst_leave(p)
    \/ \E p \in Instances : inst_exit(p)
    \/ tick

LockSpec == LockInit /\ [][LockNext]_vars

\* ------------------------------------------------------------------------
\* SyncSpec: run_rclone_sync_with_retry alone, every sleep and attempt recorded
\* ------------------------------------------------------------------------
\* main arrives at stage RCLONE_SYNC with the snapshot created and verified,
\* the lock held, and (unless this is a dry run) the priority workload running
SyncInit ==
    /\ pc = "sync"
    /\ backup_state = [BackupStateInit EXCEPT !.stage = "BACKUP_VERIFICATION",
                                              !.containers_stopped = TRUE,
                                              !.plex_started = TRUE,
                                              !.backup_file = "backup.tar.gz.enc",
                                              !.backup_created = TRUE,
                                              !.backup_verified = TRUE]
    /\ LocalsStart
    /\ detail = TRUE
    /\ dry_run_mode \in BOOLEAN
    /\ stacksIsDir = TRUE
    /\ running = IF dry_run_mode THEN {} ELSE ContainersOf({PLEX_COMPOSE_FILE})
    /\ now = MaxTicks * ClockStep
    /\ lockFile = [exists |-> TRUE, mtime |-> now, owner |-> Self]
    /\ lock_fd = [p \in Instances |-> IF p = Self THEN "fd" ELSE "None"]
    /\ ipc = [p \in Instances |-> "idle"]

SyncNext ==
    \/ signal_handler
    \/ main_sync
    \/ rc_attempt
    \/ rc_execute

SyncSpec == SyncInit /\ [][SyncNext]_vars

\* ------------------------------------------------------------------------
\* ParseSpec: the log scan of _execute_rclone_sync
\* ------------------------------------------------------------------------
\* the first attempt of the retry loop, at the moment the rclone process has
\* ended and left any log
ParseInit ==
    /\ pc = "rc_execute"
    /\ backup_state = [BackupStateInit EXCEPT !.stage = "RCLONE_SYNC",
                                              !.containers_stopped = TRUE,
                                              !.plex_started = TRUE,
                                              !.backup_file = "backup.tar.gz.enc",
                                              !.backup_created = TRUE,
                                              !.backup_verified = TRUE]
    /\ success = FALSE
    /\ exit_code = "None"
    /\ shutdown_requested = FALSE
    /\ retry = 0
    /\ remaining = {}
    /\ sd_elapsed = 0
    /\ sd_trace = <<>>
    /\ attempt = 1
    /\ retry_delay = RCLONE_RETRY_DELAY
    /\ last_error = <<>>
    /\ rclone_summary = Skipped
    /\ rc_trace = <<>>
    /\ rc_elapsed = 0
    /\ rclone_log \in RcloneLogs
    /\ LogUnread
    /\ final_status = "None"
    /\ restart_error = <<>>
    /\ raised = NoException
    /\ cancel_at = NoSignal
    /\ trace = <<Ev("run_rclone_sync_with_retry", {}, "call"),
                 Ev("discord", {}, "Rclone Sync Status: Started"), Transfer>>
    /\ detail = FALSE
    /\ dry_run_mode = FALSE
    /\ stacksIsDir = TRUE
    /\ running = ContainersOf({PLEX_COMPOSE_FILE})
    /\ now = MaxTicks * ClockStep
    /\ lockFile = [exists |-> TRUE, mtime |-> now, owner |-> Self]
    /\ lock_fd = [p \in Instances |-> IF p = Self THEN "fd" ELSE "None"]
    /\ ipc = [p \in Instances |-> "idle"]

ParseNext ==
    \/ parse_line
    \/ parse_return

ParseSpec == ParseInit /\ [][ParseNext]_vars

\* ------------------------------------------------------------------------
\* ShutdownSpec: ensure_all_containers_stopped alone, every command recorded
\* ------------------------------------------------------------------------
\* main arrives at stage CONTAINER_SHUTDOWN with the lock held and nothing
\* done yet, on a host with any set of containers running
ShutdownInit ==
    /\ pc = "shutdown"
    /\ backup_state = [BackupStateInit EXCEPT !.stage = "MAINTENANCE_WINDOW"]
    /\ LocalsStart
    /\ detail = TRUE
    /\ dry_run_mode \in BOOLEAN
    /\ stacksIsDir \in BOOLEAN
    /\ running \in SUBSET Containers
    /\ now = MaxTicks * ClockStep
    /\ lockFile = [exists |-> TRUE, mtime |-> now, owner |-> Self]
    /\ lock_fd = [p \in Instances |-> IF p = Self THEN "fd" ELSE "None"]
    /\ ipc = [p \in Instances |-> "idle"]

ShutdownNext ==
    \/ signal_handler
    \/ sd_entry
    \/ sd_loop
    \/ sd_stageA
    \/ sd_stageB
    \/ sd_stageC
    \/ sd_exhausted

ShutdownSpec == ShutdownInit /\ [][ShutdownNext]_vars

\* the call as a sequential program: while it has not ended, its next
\* statement is executed (every external command comes back, with an exit
\* code or with subprocess's timeout); signals may or may not arrive
sd_step ==
    \/ sd_entry
    \/ sd_loop
    \/ sd_stageA
    \/ sd_stageB
    \/ sd_stageC
    \/ sd_exhausted

ShutdownLiveSpec == ShutdownInit /\ [][ShutdownNext]_vars /\ WF_vars(sd_step)

\* ------------------------------------------------------------------------
\* Properties
\* ------------------------------------------------------------------------
\* positions of the history that hold a given call or command
At(op) == {i \in 1..Len(trace) : trace[i].op = op}
AtTag(op, tag) == {i \in At(op) : trace[i].tag = tag}

FinPcs == {"finalization", "fin_others", "fin_verify", "fin_cleanup", "fin_report"}

\* the steps of the finally block, in the order the claim gives them
FinSteps ==
    <<"start_priority", "start_others", "docker_ps", "emergency_container_restart",
      "remove_backup_maintenance_window", "send_final_status_notification">>
IsFinStep(e) ==
    /\ \E k \in 1..Len(FinSteps) : FinSteps[k] = e.op
    /\ e.op \in {"start_priority", "start_others", "docker_ps"} => e.tag = "finalization"
RankOf(e) == CHOOSE k \in 1..Len(FinSteps) : FinSteps[k] = e.op
FinHistory == SelectSeq(trace, IsFinStep)

FinPriority == AtTag("start_priority", "finalization")
FinOthers == AtTag("start_others", "finalization")
FinEnumeration == AtTag("docker_ps", "finalization")
Emergency == At("emergency_container_restart")
Release == At("remove_backup_maintenance_window")
Report == At("send_final_status_notification")

LastStop == CHOOSE i \in At("stop_or_kill") : \A j \in At("stop_or_kill") : j <= i
StartedAfter(f, i) == \E j \in At("compose_up") : j > i /\ f \in trace[j].ids

\* C2: when a run that issued a stop or kill command has reached COMPLETE, a
\* start command for the priority compose file and for every ordinary compose
\* file was issued after the last stop or kill command.
C2_StoppedWorkloadsRestarted ==
    (pc = "done" /\ At("stop_or_kill") # {}) =>
        \A f \in {PLEX_COMPOSE_FILE} \cup get_docker_compose_files[2] :
            StartedAfter(f, LastStop)

\* C3: while an invocation is in the staged sequence and the lock file it
\* created is on disk and not stale, no other invocation is in the staged
\* sequence.
C3_MutualExclusion ==
    \A p, q \in Instances :
        (/\ p # q
         /\ ipc[p] = "staged"
         /\ lockFile.exists /\ lockFile.owner = p
         /\ ~is_stale_lock(lockFile, now))
        => ipc[q] # "staged"

\* C4: a run whose acquire_lock raised FileExistsError exits with code 1 and
\* has issued no stop, kill or start command.
C4_RejectedRunIssuesNoCommand ==
    (pc = "done" /\ raised.kind = "FileExistsError") =>
        /\ exit_code = 1
        /\ At("stop_or_kill") = {}
        /\ At("compose_up") = {}

\* C5: the exit code is 0 exactly when `success` is true, and `success` is
\* true exactly when the staged sequence ran to its end with backup_created
\* set and an empty error list; every other run exits with code 1.
C5_SuccessAndExitCode ==
    pc = "done" =>
        /\ exit_code \in {0, 1}
        /\ exit_code = 0 <=> success
        /\ success <=> /\ raised.kind = "none"
                       /\ backup_state.backup_created
                       /\ backup_state.errors = <<>>

\* C5's case: a real run (not a dry run) exited with code 0
C5_Witness == pc = "done" /\ exit_code = 0 /\ ~dry_run_mode

SnapshotFailed == AtTag("create_backup", "BackupCreationError") # {}

\* C6: a run in which create_backup raised BackupCreationError exits with
\* code 1 after both restart steps of the finalization, with exactly one
\* entry in its error list.
C6_SnapshotFailureOneError ==
    (pc = "done" /\ SnapshotFailed) =>
        /\ exit_code = 1
        /\ get_docker_compose_files[1] # {} => FinPriority # {}
        /\ get_docker_compose_files[2] # {} => FinOthers # {}
        /\ Len(backup_state.errors) = 1

\* C7: a run that ends with success, warnings and no errors reports the
\* status "Completed with Warnings" and exits with code 0.
C7_CompletedWithWarnings ==
    (/\ pc = "done"
     /\ success
     /\ backup_state.warnings # <<>>
     /\ backup_state.errors = <<>>)
    => (final_status = "Completed with Warnings" /\ exit_code = 0)

VerificationFailed == AtTag("verify_backup", "BackupVerificationError") # {}

\* C8: once verify_backup has raised BackupVerificationError, its message is
\* an entry of the warning list and not of the error list, and a run whose
\* only failure it is ends successful.
C8_VerificationFailureIsWarning ==
    VerificationFailed =>
        /\ \A i \in DOMAIN backup_state.errors :
              backup_state.errors[i].text # BackupVerificationError
        /\ \E i \in DOMAIN backup_state.warnings :
              backup_state.warnings[i].text = BackupVerificationError
        /\ (pc = "done" /\ raised.kind = "none" /\ backup_state.rclone_completed)
              => success

\* C9: an exception other than the cancellation leaves the staged sequence
\* only from the pre-flight stage or the snapshot stage.
C9_OnlyPreflightAndSnapshotAbort ==
    raised.kind \in {"Exception", "SystemExit"} =>
        raised.stage \in {"PREFLIGHT", "BACKUP_CREATION"}

CancelledInShutdown == cancel_at.call = "ensure_all_containers_stopped"

\* C10: once the flag was set while ensure_all_containers_stopped was
\* running, the loop starts no escalation stage of a later iteration, main
\* is in that call or in the finalization from then on, create_backup and
\* the sync are never called, and the run ends past stage CLEANUP.
C10_CancelDuringShutdown ==
    CancelledInShutdown =>
        /\ pc \in SdPcs \cup FinPcs \cup {"done"}
        /\ pc \in {"sd_stageA", "sd_stageB", "sd_stageC"} => retry = cancel_at.retry
        /\ pc \in SdPcs => retry <= cancel_at.retry + 1
        /\ At("create_backup") = {}
        /\ At("run_rclone_sync_with_retry") = {} /\ At("rclone") = {}
        /\ pc = "done" => backup_state.stage = "COMPLETE" /\ Report # {}

\* C10's case: the signal arrived in the second iteration of the loop, after
\* stop commands were issued, and the run ended through KeyboardInterrupt
C10_Witness ==
    /\ CancelledInShutdown
    /\ cancel_at.retry = 1
    /\ At("stop_or_kill") # {}
    /\ raised.kind = "KeyboardInterrupt"
    /\ pc = "done"

ScriptInterrupted == <<"Script interrupted">>

\* C11: a run that left the staged sequence because it observed the
\* cancellation flag has no entry in its error list on account of the
\* cancellation.
C11_CancellationIsNoError ==
    raised.kind = "KeyboardInterrupt" =>
        \A i \in DOMAIN backup_state.errors :
            backup_state.errors[i].text # ScriptInterrupted

\* the place of a stage in the BackupStage enumeration
StageRank(s) == CHOOSE k \in 1..Len(BackupStage) : BackupStage[k] = s

\* C12: every assignment to backup_state.stage sets it to a later member of
\* the enumeration, or re-enters CONTAINER_RESTART_PLEX or
\* CONTAINER_RESTART_ALL.
C12_StageMovesForward ==
    [][\/ backup_state'.stage = backup_state.stage
       \/ StageRank(backup_state'.stage) > StageRank(backup_state.stage)
       \/ backup_state'.stage \in {"CONTAINER_RESTART_PLEX", "CONTAINER_RESTART_ALL"}]_vars

\* the history of the retry loop, by kind of entry
AttemptBegins == SelectSeq(rc_trace, LAMBDA e : e.op = "elapsed")
Transfers == SelectSeq(rc_trace, LAMBDA e : e.op = "rclone")
Sleeps == SelectSeq(rc_trace, LAMBDA e : e.op = "sleep")
AttemptEnds ==
    SelectSeq(rc_trace, LAMBDA e : e.op \in {"exit", "OperationTimeout", "Exception"})

\* C13: one wall-clock deadline bounds the whole call of the sync retry loop:
\* no attempt begins once RCLONE_OVERALL_TIMEOUT seconds have elapsed since the
\* call began.
C13_OverallDeadline ==
    \A i \in DOMAIN AttemptBegins :
        \A t \in AttemptBegins[i].ids : t <= RCLONE_OVERALL_TIMEOUT

\* an attempt that ended with a retryable exit code / with exit code 0
RetryableExit(e) ==
    e.op = "exit" /\ \A c \in e.ids : c # 0 /\ is_retryable_rclone_error(c)
ZeroExit(e) == e.op = "exit" /\ e.ids = {0}
\* N - 1 attempts with a retryable exit code, then an attempt with exit code 0
FailuresThenSuccess ==
    /\ AttemptEnds # <<>>
    /\ ZeroExit(AttemptEnds[Len(AttemptEnds)])
    /\ \A i \in 1..(Len(AttemptEnds) - 1) : RetryableExit(AttemptEnds[i])

\* C14: when attempts 1..N-1 fail with a retryable exit code and attempt N
\* exits 0, the call returns status "success" with attempts = N and the tool
\* has been invoked exactly N times.
C14_SuccessOnAttemptN ==
    FailuresThenSuccess =>
        /\ pc = "determine"
        /\ rclone_summary.status = "success"
        /\ rclone_summary.attempts = Len(AttemptEnds)
        /\ Len(Transfers) = Len(AttemptEnds)
        /\ \A i \in DOMAIN Transfers : Transfers[i].ids = {i}

C14_Witness ==
    /\ FailuresThenSuccess
    /\ Len(AttemptEnds) = RCLONE_MAX_RETRIES
    /\ rclone_summary.attempts = RCLONE_MAX_RETRIES
    /\ backup_state.rclone_completed

\* the exit codes the claim names as fatal
FatalCodes == {1, 3, 4, 7}
FatalExit(e) == e.op = "exit" /\ e.ids \subseteq FatalCodes
OtherNonZeroExit(e) == e.op = "exit" /\ e.ids \cap (FatalCodes \cup {0}) = {}

\* C15: an attempt that exits with 1, 3, 4 or 7 ends the call at once with
\* status "failed" (after the first attempt: attempts = 1); an attempt that
\* exits with any other non-zero code is retried (unless it was the last
\* attempt allowed, or the run is cancelled before the next one).
C15_FatalCodesEndTheLoop ==
    \A i \in DOMAIN AttemptEnds :
        /\ FatalExit(AttemptEnds[i]) =>
              /\ Len(AttemptEnds) = i
              /\ Len(Transfers) = i
              /\ pc = "determine"
              /\ rclone_summary.status = "failed"
              /\ rclone_summary.attempts = i
              /\ {rclone_summary.exit_code} = AttemptEnds[i].ids
        /\ OtherNonZeroExit(AttemptEnds[i]) /\ i < RCLONE_MAX_RETRIES =>
              \/ Len(AttemptEnds) > i
              \/ pc \in RcPcs /\ attempt = i + 1
              \/ raised.kind = "KeyboardInterrupt"

C15_Witness ==
    /\ Len(AttemptEnds) = 1
    /\ AttemptEnds[1] = Ev("exit", {7}, "attempt ends")
    /\ rclone_summary.status = "failed"
    /\ rclone_summary.attempts = 1

\* the error text the loop keeps of a retryable attempt that ended as e
ErrorTextsOf(e) ==
    CASE e.op = "OperationTimeout" -> {OperationTimeout}
      [] e.op = "Exception" -> {RcloneException}
      [] OTHER -> RcloneLogErrors
Returned == pc = "determine" /\ rclone_summary.status \in {"success", "failed"}
LastEnd == AttemptEnds[Len(AttemptEnds)]

BackoffSequence == <<30, 60, 120, 240, 300, 300>>

\* C17: the delays slept before attempts 2, 3, 4, ... are 30, 60, 120, 240,
\* 300, 300, ...: they start at RCLONE_RETRY_DELAY, double, and never exceed
\* RCLONE_RETRY_MAX_DELAY; the delay the loop holds for its next sleep is the
\* next member of the sequence.
C17_BackoffDelays ==
    /\ \A i \in DOMAIN Sleeps : Sleeps[i].ids = {BackoffSequence[i]}
    /\ \A i \in DOMAIN Sleeps : \A d \in Sleeps[i].ids : d <= RCLONE_RETRY_MAX_DELAY
    /\ Len(Sleeps) = IF Transfers = <<>> THEN 0 ELSE Len(Transfers) - 1
    /\ retry_delay <= RCLONE_RETRY_MAX_DELAY
    /\ pc \in RcPcs =>
          retry_delay = BackoffSequence[Len(Sleeps) + 1]

C17_Witness ==
    /\ pc \in RcPcs
    /\ Len(Sleeps) = RCLONE_MAX_RETRIES - 1
    /\ Sleeps[Len(Sleeps)].ids = {240}
    /\ retry_delay = RCLONE_RETRY_MAX_DELAY

TimedOut(e) == e.op = "OperationTimeout"

\* C18: an attempt that times out is retryable: the loop goes on to the next
\* attempt (if one is left and the run is not cancelled), and the call never
\* returns early because of a timeout.
C18_TimeoutIsRetryable ==
    \A i \in DOMAIN AttemptEnds :
        TimedOut(AttemptEnds[i]) =>
            /\ i < RCLONE_MAX_RETRIES =>
                  \/ Len(AttemptEnds) > i
                  \/ pc \in RcPcs /\ attempt = i + 1
                  \/ raised.kind = "KeyboardInterrupt"
            /\ Returned /\ i = Len(AttemptEnds) =>
                  /\ i = RCLONE_MAX_RETRIES
                  /\ rclone_summary.attempts = RCLONE_MAX_RETRIES

C18_Witness ==
    /\ Len(AttemptEnds) >= 2
    /\ TimedOut(AttemptEnds[1])
    /\ Transfers[2].ids = {2}

\* the signal arrived while the sync retry loop was in a backoff wait
CancelledInBackoff ==
    cancel_at.call = "run_rclone_sync_with_retry" /\ cancel_at.sleeping

\* C19: when the cancellation flag is set during a backoff wait of the sync
\* retry loop, the loop makes at most one more transfer attempt (the one the
\* wait precedes), and when the cancellation ends the loop the run is in
\* finalization.
C19_CancelDuringBackoff ==
    CancelledInBackoff =>
        /\ Len(Transfers) <= cancel_at.attempt
        /\ pc = "rc_execute" => attempt = cancel_at.attempt
        /\ pc = "rc_attempt" => attempt = cancel_at.attempt + 1
        /\ raised.kind = "KeyboardInterrupt" <=> pc = "finalization"

C19_Witness ==
    /\ CancelledInBackoff
    /\ raised.kind = "KeyboardInterrupt"
    /\ pc = "finalization"
    /\ Len(Transfers) = cancel_at.attempt
    /\ Len(Sleeps) = cancel_at.attempt - 1

\* the commands of the shutdown loop that stop or kill containers
StopCommands == {"compose_stop", "docker_stop", "docker_kill"}
\* the call found no container running: its first enumeration succeeded and
\* listed nothing
NothingRunningAtCall ==
    /\ sd_trace # <<>>
    /\ sd_trace[1] = Ev("docker_ps", {}, "ok")

\* C20: ensure_all_containers_stopped, called while no container is running,
\* returns True at once: it issues no compose stop, docker stop or docker
\* kill, does nothing after the first enumeration, and main records the
\* containers as stopped.
C20_NothingToStop ==
    NothingRunningAtCall =>
        /\ sd_trace = <<Ev("docker_ps", {}, "ok")>>
        /\ \A i \in DOMAIN sd_trace : sd_trace[i].op \notin StopCommands
        /\ \A i \in DOMAIN trace : trace[i] # StopOrKill
        /\ running = {}
        /\ pc \notin SdPcs
        /\ backup_state.containers_stopped
        /\ raised.kind # "Exception"

C20_Witness ==
    /\ NothingRunningAtCall
    /\ pc = "backup"
    /\ backup_state.containers_stopped
    /\ stacksIsDir

\* the history of the shutdown loop, by kind of entry
Enumerations == SelectSeq(sd_trace, LAMBDA e : e.op = "docker_ps")
Kills == SelectSeq(sd_trace, LAMBDA e : e.op = "docker_kill")
\* the call has ended, by returning or by raising
ShutdownCallEnded == pc \notin SdPcs \cup {"shutdown"}
\* the call went through the loop and its last enumeration, after the loop,
\* succeeded and listed the containers that are still running
SurvivorsListed ==
    /\ ShutdownCallEnded
    /\ running # {}
    /\ Len(sd_trace) >= 2
    /\ sd_trace[Len(sd_trace) - 1].op = "loop_left"
    /\ sd_trace[Len(sd_trace)] = Ev("docker_ps", running, "ok")
StillRunningWarnings ==
    SelectSeq(backup_state.warnings,
              LAMBDA w : w.text[1] = "Containers still running: ")
Mentions(text, c) == {i \in 2..Len(text) : text[i] = ContainerName(c)}

\* C21: when containers survive the three stages of every retry, the call
\* returns False without raising and the warning list has one "Containers
\* still running" entry that names every surviving container exactly once,
\* however many retries were made.
C21_SurvivorsWarnedOnce ==
    SurvivorsListed =>
        /\ ~backup_state.containers_stopped
        /\ raised.kind # "Exception"
        /\ Len(StillRunningWarnings) = 1
        /\ Len(StillRunningWarnings[1].text) = 1 + Cardinality(running)
        /\ \A c \in running :
              Cardinality(Mentions(StillRunningWarnings[1].text, c)) = 1

C21_Witness ==
    /\ SurvivorsListed
    /\ running = Containers
    /\ Len(Kills) = DOCKER_SHUTDOWN_MAX_RETRIES
    /\ \A i \in DOMAIN Kills : Kills[i].ids = Containers
    /\ Len(StillRunningWarnings) = 1
    /\ pc = "backup"

\* entry i of the shutdown history is an enumeration that listed `ids`
ListedAt(i, ids) ==
    /\ i \in DOMAIN sd_trace
    /\ sd_trace[i].op = "docker_ps"
    /\ sd_trace[i].ids = ids
\* the graceful step of the attempt that entry i belongs to came before it:
\* the compose stop and its check, or only the check when no compose file
\* was there to issue a command for
AfterGracefulStep(i) ==
    \/ i > 2 /\ sd_trace[i - 2].op = "compose_stop"
    \/ i > 2 /\ sd_trace[i - 2].op = "docker_ps" /\ CommandedFiles(
                  get_docker_compose_files[1] \cup get_docker_compose_files[2]) = {}
\* the graceful step of the first attempt stopped every container
GracefulStoppedAll ==
    /\ Len(sd_trace) >= 3
    /\ sd_trace[1].op = "docker_ps" /\ sd_trace[1].ids # {}
    /\ sd_trace[2].op = "compose_stop"
    /\ sd_trace[3] = Ev("docker_ps", {}, "ok")

\* C22: in every shutdown attempt the steps are compose stop, check, docker
\* stop, check, docker kill, check; docker stop is issued against exactly the
\* containers the check after the graceful step listed, docker kill against
\* exactly those the check after docker stop listed; when the graceful step
\* stops every container the call returns True after it, with no docker stop
\* and no docker kill.
C22_EscalationOrder ==
    /\ \A i \in DOMAIN sd_trace :
          /\ sd_trace[i].op = "compose_stop" =>
                i > 1 /\ sd_trace[i - 1].op = "docker_ps" /\ sd_trace[i - 1].ids # {}
          /\ sd_trace[i].op = "docker_stop" =>
                /\ sd_trace[i].ids # {}
                /\ ListedAt(i - 1, sd_trace[i].ids)
                /\ AfterGracefulStep(i)
          /\ sd_trace[i].op = "docker_kill" =>
                /\ sd_trace[i].ids # {}
                /\ ListedAt(i - 1, sd_trace[i].ids)
                /\ i > 2 /\ sd_trace[i - 2].op = "docker_stop"
          /\ sd_trace[i].op \in StopCommands =>
                i < Len(sd_trace) /\ sd_trace[i + 1].op = "docker_ps"
    /\ GracefulStoppedAll =>
          /\ Len(sd_trace) = 3
          /\ ShutdownCallEnded
          /\ backup_state.containers_stopped
          /\ \A i \in DOMAIN trace : trace[i].op # "discord"

C22_Witness ==
    /\ GracefulStoppedAll
    /\ sd_trace[1] = Ev("docker_ps", Containers, "ok")
    /\ running = {}
    /\ pc = "backup"
    /\ backup_state.containers_stopped

\* ensure_all_containers_stopped returned False: the notification it sends
\* just before is in the history
ShutdownReturnedFalse ==
    \E i \in DOMAIN trace : trace[i] = Ev("discord", {}, "Container Shutdown Failed")
SnapshotStageEntered == \E i \in DOMAIN trace : trace[i].op = "create_backup"

\* C23: when ensure_all_containers_stopped returns False the run goes on to
\* the snapshot stage (unless it is cancelled at the poll in between), and
\* the incomplete shutdown has added one warning and no error.
C23_IncompleteShutdownIsWarning ==
    ShutdownReturnedFalse =>
        /\ ~backup_state.containers_stopped
        /\ Len(StillRunningWarnings) = 1
        /\ \A i \in DOMAIN backup_state.errors :
              backup_state.errors[i].stage = "CONTAINER_SHUTDOWN" =>
                  backup_state.errors[i].text = ScriptInterrupted
        /\ \/ pc = "backup"
           \/ SnapshotStageEntered
           \/ raised = [stage |-> "CONTAINER_SHUTDOWN", kind |-> "KeyboardInterrupt"]

C23_Witness ==
    /\ ShutdownReturnedFalse
    /\ SnapshotStageEntered
    /\ backup_state.backup_created
    /\ backup_state.errors = <<>>
    /\ Len(backup_state.warnings) = 1

\* C24: ensure_all_containers_stopped never returns True while a container is
\* still running, also when an enumeration of the running containers fails
\* (outside dry-run mode, where the call does not look at the containers).
C24_TrueOnlyWhenAllStopped ==
    ShutdownCallEnded /\ ~dry_run_mode /\ backup_state.containers_stopped =>
        running = {}

\* the priority start of the staged sequence, when main has something to start
PriorityStartDue == DOCKER_ENABLE_STOP_START /\ get_docker_compose_files[1] # {}

\* C25: the stages run in the order shutdown, snapshot, priority restart,
\* sync: create_backup is called only when the shutdown stage is over, after
\* every stop or kill command; the sync is called only after create_backup
\* and after the priority restart stage, whose start command (when there is a
\* priority compose file to start) comes between the two.
C25_StageOrder ==
    /\ pc = "backup" => backup_state.stage = "CONTAINER_SHUTDOWN"
    /\ pc = "restart_plex" => backup_state.stage = "BACKUP_CREATION"
    /\ pc = "verify" => backup_state.stage = "CONTAINER_RESTART_PLEX"
    /\ pc = "sync" => backup_state.stage = "BACKUP_VERIFICATION"
    /\ \A j \in At("create_backup") :
          /\ \A i \in At("stop_or_kill") : i < j
          /\ StageRank(backup_state.stage) >= StageRank("BACKUP_CREATION")
    /\ \A k \in At("run_rclone_sync_with_retry") \cup At("rclone") :
          /\ \E j \in At("create_backup") :
                /\ j < k
                /\ PriorityStartDue =>
                      \E i \in AtTag("start_priority", "stage") : j < i /\ i < k
          /\ StageRank(backup_state.stage) >= StageRank("RCLONE_SYNC")

C25_Witness ==
    /\ At("stop_or_kill") # {}
    /\ At("create_backup") # {}
    /\ AtTag("start_priority", "stage") # {}
    /\ At("rclone") # {}
    /\ backup_state.rclone_completed

\* the calls of run_rclone_sync_with_retry and the transfers in the history
SyncCalls == At("run_rclone_sync_with_retry") \cup At("rclone")
SnapshotReturned == At("create_backup") \ AtTag("create_backup", "BackupCreationError")

\* C26: run_rclone_sync_with_retry is called, and a transfer started, only
\* after create_backup returned in this run (backup_created is true); when
\* create_backup raised or was never called, there is no call and no transfer.
C26_SyncOnlyWithArchive ==
    /\ \A k \in SyncCalls :
          /\ backup_state.backup_created
          /\ \E j \in SnapshotReturned : j < k
    /\ SnapshotReturned = {} => SyncCalls = {}
    /\ ~backup_state.backup_created => SyncCalls = {}

C26_Witness ==
    /\ AtTag("create_backup", "BackupCreationError") # {}
    /\ ~backup_state.backup_created
    /\ pc = "done"
    /\ SyncCalls = {}

\* C27: after verify_backup has raised BackupVerificationError the archive is
\* kept (backup_created and backup_file stay as create_backup left them) and
\* the sync stage is gone through with it: run_rclone_sync_with_retry is
\* called unless the run is cancelled at the poll before the stage.
C27_SyncAfterVerificationFailure ==
    VerificationFailed =>
        /\ backup_state.backup_created
        /\ backup_state.backup_file = "backup.tar.gz.enc"
        /\ \/ pc = "sync"
           \/ \E k \in At("run_rclone_sync_with_retry") :
                 \A j \in At("verify_backup") : j < k
           \/ raised = [stage |-> "BACKUP_VERIFICATION", kind |-> "KeyboardInterrupt"]

C27_Witness ==
    /\ VerificationFailed
    /\ At("rclone") # {}
    /\ backup_state.rclone_completed
    /\ ~backup_state.backup_verified

\* the boolean flags of BackupState
StateFlags(bs) ==
    <<bs.containers_stopped, bs.plex_started, bs.other_services_started,
      bs.backup_created, bs.backup_verified, bs.rclone_completed>>

\* C28: each boolean flag of the run state is monotone: no step of the run
\* sets a flag that is true back to false.
C28_FlagsMonotone ==
    [][\A i \in DOMAIN StateFlags(backup_state) :
          StateFlags(backup_state)[i] => StateFlags(backup_state')[i]]_vars

C28_Witness ==
    /\ pc = "done"
    /\ \A i \in DOMAIN StateFlags(backup_state) : StateFlags(backup_state)[i]
    /\ At("stop_or_kill") # {}

\* pre_flight_checks called sys.exit(1)
PreflightFailed == raised = [kind |-> "SystemExit", stage |-> "PREFLIGHT"]

\* C29: when pre_flight_checks fails the run leaves the staged sequence at
\* once: no stop or kill command is issued, no maintenance window is opened,
\* create_backup is not called, and the run ends with exit code 1.
C29_PreflightFailureAborts ==
    PreflightFailed =>
        /\ At("stop_or_kill") = {}
        /\ At("kuma_add_maintenance") = {}
        /\ backup_state.maintenance_window_id = "None"
        /\ At("create_backup") = {}
        /\ ~backup_state.backup_created
        /\ SyncCalls = {}
        /\ pc \in FinPcs \cup {"done"}
        /\ ~success
        /\ pc = "done" => exit_code = 1

C29_Witness ==
    /\ PreflightFailed
    /\ pc = "done"
    /\ exit_code = 1
    /\ final_status = "Failed"

\* main has gone through stage MAINTENANCE_WINDOW, and
\* create_backup_maintenance_window returned None there
WindowStagePassed ==
    /\ pc \notin {"start", "preflight", "maintenance"}
    /\ \/ raised.kind = "none"
       \/ StageRank(raised.stage) > StageRank("MAINTENANCE_WINDOW")
NoWindowOpened == WindowStagePassed /\ At("kuma_add_maintenance") = {}

\* C30: opening the maintenance window never aborts the run: nothing is
\* raised in stage MAINTENANCE_WINDOW, and when
\* create_backup_maintenance_window returns None the run goes on to the
\* shutdown stage with no window recorded and finalization does not call
\* remove_backup_maintenance_window.
C30_WindowIsBestEffort ==
    /\ raised.stage # "MAINTENANCE_WINDOW"
    /\ NoWindowOpened =>
          /\ backup_state.maintenance_window_id = "None"
          /\ At("remove_backup_maintenance_window") = {}
          /\ \/ pc = "shutdown"
             \/ StageRank(backup_state.stage) >= StageRank("CONTAINER_SHUTDOWN")

C30_Witness ==
    /\ NoWindowOpened
    /\ ~dry_run_mode
    /\ pc = "done"
    /\ backup_state.backup_created
    /\ success
    /\ At("remove_backup_maintenance_window") = {}

\* the lines of the log read so far, and the JSON records among given lines
LinesRead == SubSeq(rclone_log, 1, line_no)
ErrorRecords(lines) ==
    SelectSeq(lines, LAMBDA l : is_json_object(l) /\ l.level = "error" /\ l.msg_is_str)
MessagesOf(records) == [i \in DOMAIN records |-> records[i].msg]
ExecuteReturned == sync_result # NoResult

\* C31: every record of the sync log whose level is "error" contributes its
\* message to error_lines, in log order, and the last_error of the attempt is
\* the last three of those messages ('None' when there are none).
C31_ErrorMessagesCollected ==
    LET msgs == MessagesOf(ErrorRecords(LinesRead)) IN
    /\ error_lines = msgs
    /\ ExecuteReturned =>
          sync_result.last_error =
             (IF msgs = <<>> THEN <<"None">>
              ELSE [i \in 1..(IF Len(msgs) < 3 THEN Len(msgs) ELSE 3) |->
                      msgs[Len(msgs) - (IF Len(msgs) < 3 THEN Len(msgs) ELSE 3) + i]])

\* the records read so far that contain a stats object
StatsRecords(n) == {i \in 1..n : has_stats_object(rclone_log[i])}
LastStatsRecord(n) == CHOOSE i \in StatsRecords(n) : \A j \in StatsRecords(n) : j <= i
LastAggregate(n) ==
    IF StatsRecords(n) = {} THEN NoStats ELSE rclone_log[LastStatsRecord(n)].stats

\* C32: the aggregate captured while the log is read is always the stats
\* object of the last record read that contains one, whatever lines that are
\* no JSON objects lie between or after the records, and the statistics the
\* attempt reports are those of the last such record of the log (the defaults
\* when the log has none).
C32_LastStatsReported ==
    /\ final_stats = LastAggregate(line_no)
    /\ ExecuteReturned =>
          LET last == LastAggregate(Len(rclone_log)) IN
          IF last = NoStats
          THEN /\ sync_result.transfers = 0
               /\ sync_result.bytes_transferred = 0
               /\ sync_result.checks_count = 0
               /\ sync_result.total_bytes = 0
               /\ sync_result.errors_count = Len(error_lines)
          ELSE /\ sync_result.transfers = last.transfers
               /\ sync_result.bytes_transferred = last.bytes
               /\ sync_result.errors_count = last.errors
               /\ sync_result.checks_count = last.checks
               /\ sync_result.total_bytes = last.totalBytes

C32_Witness ==
    /\ ExecuteReturned
    /\ Len(rclone_log) = 4
    /\ rclone_log[1] = Record("info", "Final stats", "dict", FinalStats)
    /\ rclone_log[2] = BrokenLine
    /\ rclone_log[3] = Record("info", "Sync progress", "dict", ProgressStats)
    /\ rclone_log[4] = TextLine
    /\ sync_result.transfers = 5

\* invocation p makes its attempt to acquire the lock in this step, and
\* LOCK_FILE exists
AttemptsHeldLock(p) == ipc[p] = "idle" /\ ipc'[p] # "idle" /\ lockFile.exists
LockAge == now - lockFile.mtime

\* C33: an existing lock file is reclaimed only when its age exceeds
\* SCRIPT_OVERALL_TIMEOUT: an older lock is removed and created anew by the
\* acquiring invocation, which enters the staged sequence; a lock that is not
\* older makes the acquisition fail.
C33_StaleLockReclaimed ==
    [][\A p \in Instances :
          AttemptsHeldLock(p) =>
             IF LockAge > SCRIPT_OVERALL_TIMEOUT
             THEN /\ ipc'[p] = "staged"
                  /\ lock_fd'[p] = "fd"
                  /\ lockFile' = [exists |-> TRUE, mtime |-> now, owner |-> p]
             ELSE /\ ipc'[p] = "rejected"
                  /\ lock_fd'[p] = "None"
                  /\ ~(lockFile'.exists /\ lockFile'.owner = p)]_vars

C33_Witness ==
    \E p \in Instances, q \in Instances :
       /\ p # q
       /\ ipc[p] = "staged"
       /\ ipc[q] = "staged"
       /\ \A r \in Instances \ {p, q} : ipc[r] = "idle"
       /\ now > SCRIPT_OVERALL_TIMEOUT
       /\ lockFile = [exists |-> TRUE, mtime |-> now, owner |-> p]

\* what a run does to the outside: commands to workloads, a written archive,
\* a transfer, calls of the maintenance-window API, notifications
OutsideEffects ==
    At("stop_or_kill") \cup At("compose_up") \cup At("rclone")
    \cup At("kuma_add_maintenance") \cup At("remove_backup_maintenance_window")
    \cup At("discord")
    \cup (At("create_backup") \ AtTag("create_backup", "dry-run"))
    \cup (At("verify_backup") \ AtTag("verify_backup", "dry-run"))

\* the run was not turned away at the lock, did not fail its pre-flight
\* checks and was not cancelled
RanUndisturbed == pc = "done" /\ raised.kind = "none"

\* C34: in dry-run mode a run issues no stop, kill or start command, writes
\* no archive, runs no transfer, opens and closes no maintenance window and
\* sends no notification; and a dry run that is neither turned away nor
\* cancelled goes through every stage and ends with success = TRUE.
C34_DryRunTouchesNothing ==
    dry_run_mode =>
       /\ OutsideEffects = {}
       /\ backup_state.maintenance_window_id = "None"
       /\ RanUndisturbed =>
             /\ success
             /\ exit_code = 0
             /\ backup_state.stage = "COMPLETE"
             /\ backup_state.errors = <<>>
             /\ AtTag("create_backup", "dry-run") # {}
             /\ AtTag("verify_backup", "dry-run") # {}
             /\ At("run_rclone_sync_with_retry") # {}
             /\ At("send_final_status_notification") # {}

C34_Witness ==
    /\ dry_run_mode
    /\ RanUndisturbed
    /\ success
    /\ running = Containers
    /\ stacksIsDir
    /\ At("start_priority") # {}
    /\ At("start_others") # {}
    /\ OutsideEffects = {}

\* the run entered the with-block (it created LOCK_FILE) and has left it
LeftWithBlock == pc \in FinPcs \cup {"done"} /\ raised.kind # "FileExistsError"

\* C35: a run that acquired the lock has removed the lock file as soon as it
\* has left the staged sequence, whether by normal completion, an exception,
\* cancellation or the pre-flight exit, and it holds no descriptor any more;
\* an invocation started at that moment acquires the lock.
C35_LockRemovedOnExit ==
    LeftWithBlock =>
       /\ ~lockFile.exists
       /\ lock_fd[Self] = "None"
       /\ LockAcquired(lockFile, now)

C35_Witness ==
    /\ pc = "done"
    /\ raised.kind = "KeyboardInterrupt"
    /\ ~lockFile.exists
    /\ exit_code = 1

\* the run found LOCK_FILE held by another invocation and was turned away
TurnedAway == raised.kind = "FileExistsError"

\* C36: a run that fails to acquire the lock because another invocation
\* holds it leaves the lock file of the holder in place, up to and after its
\* own exit.
C36_FailedAcquirerLeavesLock ==
    TurnedAway => lockFile.exists /\ lockFile.owner = Other

\* the escalation cycles begun: the enumeration at the top of the loop is
\* the first command of the call, or follows the retry sleep, or follows the
\* check that ended the kill stage of the cycle before
CycleStarts ==
    {i \in DOMAIN sd_trace :
        /\ sd_trace[i].op = "docker_ps"
        /\ \/ i = 1
           \/ sd_trace[i - 1].op = "sleep"
           \/ i > 2 /\ sd_trace[i - 2].op = "docker_kill"}
InCycle == pc \in {"sd_stageA", "sd_stageB", "sd_stageC"}
EveryCommandReturned == \A i \in DOMAIN sd_trace : sd_trace[i].tag # "timeout"

\* C37: ensure_all_containers_stopped begins at most
\* DOCKER_SHUTDOWN_MAX_RETRIES escalation cycles, is inside a cycle only if
\* no more than DOCKER_SHUTDOWN_OVERALL_TIMEOUT had elapsed when the cycle
\* began, and always ends; when every command returned it ends by returning
\* (nothing raised) or by the KeyboardInterrupt of a cancellation.
C37_ShutdownTerminates ==
    /\ [](Cardinality(CycleStarts) <= DOCKER_SHUTDOWN_MAX_RETRIES)
    /\ [](InCycle => /\ retry < DOCKER_SHUTDOWN_MAX_RETRIES
                     /\ sd_elapsed <= DOCKER_SHUTDOWN_OVERALL_TIMEOUT)
    /\ [](ShutdownCallEnded /\ EveryCommandReturned =>
             raised.kind \in {"none", "KeyboardInterrupt"})
    /\ <>ShutdownCallEnded

C37_Witness ==
    /\ ShutdownCallEnded
    /\ raised.kind = "none"
    /\ ~backup_state.containers_stopped
    /\ Cardinality(CycleStarts) = 1
    /\ \E i \in DOMAIN sd_trace : sd_trace[i].op = "loop_left"
    /\ EveryCommandReturned

\* the step of the RESTART_PRIORITY stage and the first step of finalization
StagePriorityStep == pc = "restart_plex" /\ pc' # "restart_plex"
FinPriorityStep == pc = "finalization" /\ pc' = "fin_others"
IssuedNow(where) ==
    \E i \in DOMAIN trace' :
       /\ i > Len(trace)
       /\ trace'[i] = Ev("start_priority", get_docker_compose_files[1], where)

\* what the two steps that can make the priority start do
PriorityStartSteps ==
    /\ StagePriorityStep =>
          /\ PriorityStartDue => IssuedNow("stage")
          /\ backup_state'.plex_started => IssuedNow("stage")
          /\ \/ pc' = "verify" /\ raised' = raised
             \/ pc' = "finalization" /\ raised'.kind = "KeyboardInterrupt"
    /\ FinPriorityStep =>
          /\ raised' = raised
          /\ exit_code' = exit_code
          /\ IF backup_state.plex_started
             THEN trace' = trace /\ backup_state'.plex_started
             ELSE PriorityStartDue => IssuedNow("finalization")

EmergencyInvokedNow == Cardinality(Emergency') > Cardinality(Emergency)

\* what the step that calls it looks like according to the claim
EmergencyJustified ==
    EmergencyInvokedNow =>
       /\ running = {} \/ restart_error' # <<>>
       /\ raised' = raised
       /\ pc' = "fin_cleanup"

\* C39: emergency_container_restart is called at most once in a run, and
\* only when no container is running after finalization's restart or when
\* that restart raised an exception; the call raises nothing, finalization
\* goes on to the cleanup stage.
C39_EmergencyRestartOnce ==
    /\ [](Cardinality(Emergency) <= 1)
    /\ [][EmergencyJustified]_vars

StartCommands == At("compose_up")
ShutdownAndSnapshot == At("stop_or_kill") \cup At("create_backup")

\* C40: within one run no workload stop or kill command and no call of
\* create_backup comes after a workload start command: every stop, kill and
\* snapshot of the history precedes every start of the history.
C40_ShutdownPrecedesRestart ==
    \A i \in StartCommands : \A j \in ShutdownAndSnapshot : j < i

\* a finished run that stopped workloads, took the snapshot, and started
\* workloads both in stage CONTAINER_RESTART_PLEX and in finalization
C40_Witness ==
    /\ pc = "done"
    /\ At("stop_or_kill") # {}
    /\ At("create_backup") # {}
    /\ \E i \in StartCommands : trace[i].tag = "stage"
    /\ \E i \in StartCommands : trace[i].tag = "finalization"

============================================================================
